---- MODULE Spec2Model ----
(***************************************************************************)
(* A model of src/src/search.py: the position-aware inverted index         *)
(* (class InvertedIndex), its phrase, proximity, boolean and TF-IDF        *)
(* queries, the proximity() merge and the batch loops of main().           *)
(*                                                                         *)
(* Text is modelled at the token level: a query or a field is a sequence   *)
(* of whitespace-separated tokens.  The regular expressions of the         *)
(* parsers are translated to what they do on such token sequences.         *)
(***************************************************************************)
EXTENDS Integers, Sequences, FiniteSets, TLC

VARIABLES
    file_path,          \* what sys.argv[1] names: the documents, no file, or no XML
    root,               \* self._root: the preprocessed documents, in file order
    inverted_index,     \* self._inverted_index (a defaultdict): key -> entry
    remove_stop_words,  \* self._remove_stop_words
    pc,                 \* where the run is
    boolean_file,       \* the lines of data/queries.lab2.txt, question ids stripped
    line_no,            \* i of the query-file loop being run (0-based)
    boolean_output,     \* the lines written to output/results.boolean.txt
    index_file,         \* the blocks written to output/index.txt
    op,                 \* the last call made and what it returned
    prox,               \* the local variables of a running proximity() call
    parser              \* the local variables of a running boolean_query_parser() call

vars == <<file_path, root, inverted_index, remove_stop_words, pc, boolean_file, line_no,
          boolean_output, index_file, op, prox, parser>>

----------------------------------------------------------------------------
(* Bounds of the model *)

MaxDocs == 2
MaxHeadLen == 1
MaxTextLen == 2
MaxLines == 2
MaxPhraseLen == 3
MaxQueryLen == 5
MaxThreshold == 1
MaxPos == 4
MaxListLen == 3

----------------------------------------------------------------------------
(* Generic helpers *)

\* an XML element with its text split into words, and a missing element (None)
Element(words) == [present |-> TRUE, text |-> words]
None == [present |-> FALSE, text |-> <<>>]

Min(S) == CHOOSE x \in S : \A y \in S : x <= y

Abs(x) == IF x < 0 THEN -x ELSE x

RECURSIVE SortedList(_)
\* sorted(list(S)) for a set of integers
SortedList(S) ==
    IF S = {} THEN <<>> ELSE <<Min(S)>> \o SortedList(S \ {Min(S)})

SeqsUpTo(S, n) == UNION {[1..k -> S] : k \in 0..n}

Range(s) == {s[k] : k \in 1..Len(s)}

----------------------------------------------------------------------------
(* Tokens of query text.  A token is one whitespace-separated piece of a    *)
(* line: a lowercase word, one of the upper-case words AND, OR, NOT, the    *)
(* text #k(p1,p2) of a proximity query, or the text #(p1,p2), which begins  *)
(* with # but has no threshold.                                             *)

Word(w) == [kind |-> "word", w |-> w, k |-> 0, p1 |-> <<>>, p2 |-> <<>>]

Keyword(c) == [kind |-> c, w |-> c, k |-> 0, p1 |-> <<>>, p2 |-> <<>>]

ProxText(k, p1, p2) == [kind |-> "prox", w |-> "#", k |-> k, p1 |-> p1, p2 |-> p2]

BadProxText(p1, p2) == [kind |-> "badprox", w |-> "#", k |-> 0, p1 |-> p1, p2 |-> p2]

AND == Keyword("AND")
OR == Keyword("OR")
NOT == Keyword("NOT")

IsConnector(tok) == tok.kind \in {"AND", "OR"}

\* the words of the corpus, a word no document holds, and a stop word
CorpusWords == {"a", "b"}
UnknownWord == "z"
default_stop_words == {"the"}

----------------------------------------------------------------------------
(* Preprocessing *)

\* str.lower() of one token
Lower(tok) ==
    CASE tok.kind = "AND" -> "and"
      [] tok.kind = "OR" -> "or"
      [] tok.kind = "NOT" -> "not"
      [] OTHER -> tok.w

\* re.sub(r"[^\w\s]", " ", token).split(): the words left of one token
convert_non_alphanumeric_to_space(tok) ==
    CASE tok.kind = "prox" -> <<ToString(tok.k)>> \o tok.p1 \o tok.p2
      [] tok.kind = "badprox" -> tok.p1 \o tok.p2
      [] OTHER -> <<Lower(tok)>>

RECURSIVE remove_stop_words_function_once(_, _)
\* a filter that also drops a word it has kept before
remove_stop_words_function_once(toks, stop_words) ==
    IF toks = <<>> THEN <<>>
    ELSE (IF Lower(Head(toks)) \in stop_words THEN <<>> ELSE <<Head(toks)>>)
         \o remove_stop_words_function_once(Tail(toks), stop_words \cup {Lower(Head(toks))})

RECURSIVE remove_stop_words_function(_, _)
\* [word for word in iterable_of_text_words if word not in iterable_of_stop_words],
\* the words being those of the lowercased text
remove_stop_words_function(toks, stop_words) ==
    IF toks = <<>> THEN <<>>
    ELSE (IF Lower(Head(toks)) \in stop_words THEN <<>> ELSE <<Head(toks)>>)
         \o remove_stop_words_function(Tail(toks), stop_words)

RECURSIVE SplitAll(_)
SplitAll(toks) ==
    IF toks = <<>> THEN <<>>
    ELSE convert_non_alphanumeric_to_space(Head(toks)) \o SplitAll(Tail(toks))

\* my_preprocessor(text, remove_stop_words, apply_stemming=False).split()
my_preprocessor(toks, rsw) ==
    SplitAll(IF rsw THEN remove_stop_words_function(toks, default_stop_words) ELSE toks)

----------------------------------------------------------------------------
(* The index *)

TotalKey == "_total_document_set"

\* the default_factory of self._inverted_index
DefaultEntry == [frequency |-> 0, document_set |-> {}, position_dict |-> <<>>]

\* the index of __init__, before _build_index
EmptyIndex == (TotalKey :> [size |-> 0, document_set |-> {}])

Terms(idx) == DOMAIN idx \ {TotalKey}

\* an occurrence counted once per document
AddOccurrence_once(idx, word, doc_id, pos) ==
    LET e == IF word \in DOMAIN idx THEN idx[word] ELSE DefaultEntry
        pd == e.position_dict
        pd2 == IF doc_id \in DOMAIN pd
               THEN [pd EXCEPT ![doc_id] = @ \cup {pos}]
               ELSE pd @@ (doc_id :> {pos})
        e2 == [frequency |-> IF doc_id \in e.document_set THEN e.frequency
                             ELSE e.frequency + 1,
               document_set |-> e.document_set \cup {doc_id},
               position_dict |-> pd2]
        idx2 == [x \in DOMAIN idx \cup {word} |-> IF x = word THEN e2 ELSE idx[x]]
    IN [idx2 EXCEPT ![TotalKey].document_set = @ \cup {doc_id}]

\* one pass of the body of the loops over a field's words
AddOccurrence(idx, word, doc_id, pos) ==
    LET e == IF word \in DOMAIN idx THEN idx[word] ELSE DefaultEntry
        pd == e.position_dict
        pd2 == IF doc_id \in DOMAIN pd
               THEN [pd EXCEPT ![doc_id] = @ \cup {pos}]
               ELSE pd @@ (doc_id :> {pos})
        e2 == [frequency |-> e.frequency + 1,
               document_set |-> e.document_set \cup {doc_id},
               position_dict |-> pd2]
        idx2 == [x \in DOMAIN idx \cup {word} |-> IF x = word THEN e2 ELSE idx[x]]
    IN [idx2 EXCEPT ![TotalKey].document_set = @ \cup {doc_id}]

RECURSIVE AddField_offset(_, _, _, _, _)
\* every word of a field at the position the field starts at
AddField_offset(idx, doc_id, words, i, offset) ==
    IF i >= Len(words) THEN idx
    ELSE AddField_offset(AddOccurrence(idx, words[i + 1], doc_id, offset),
                         doc_id, words, i + 1, offset)

RECURSIVE AddField(_, _, _, _, _)
\* for i, word in enumerate(words): add word at position i + offset
AddField(idx, doc_id, words, i, offset) ==
    IF i >= Len(words) THEN idx
    ELSE AddField(AddOccurrence(idx, words[i + 1], doc_id, i + offset),
                  doc_id, words, i + 1, offset)

\* a body numbered from 0 again, whatever the headline holds
AddDoc_restart(idx, doc) ==
    LET idx1 == IF doc.HEADLINE = None THEN idx
                ELSE AddField(idx, doc.DOCNO, doc.HEADLINE.text, 0, 0)
    IN IF doc.TEXT = None THEN idx1
       ELSE AddField(idx1, doc.DOCNO, doc.TEXT.text, 0, 0)

\* the body of "for doc in self._root.findall('DOC')"
AddDoc(idx, doc) ==
    LET headline_length == IF doc.HEADLINE = None THEN 0 ELSE Len(doc.HEADLINE.text)
        idx1 == IF doc.HEADLINE = None THEN idx
                ELSE AddField(idx, doc.DOCNO, doc.HEADLINE.text, 0, 0)
    IN IF doc.TEXT = None THEN idx1
       ELSE AddField(idx1, doc.DOCNO, doc.TEXT.text, 0, headline_length)

RECURSIVE AddDocs(_, _, _)
AddDocs(idx, docs, n) ==
    IF n > Len(docs) THEN idx ELSE AddDocs(AddDoc(idx, docs[n]), docs, n + 1)

\* whether the build raises: self._inverted_index[word]["frequency"] += 1 is a
\* KeyError when the entry under the word has no "frequency", and the entry
\* __init__ stores under "_total_document_set" has none
BuildRaises(idx, docs) ==
    \E n \in 1..Len(docs) :
        \E field \in {docs[n].HEADLINE, docs[n].TEXT} :
            \E i \in 1..Len(field.text) :
                /\ field.text[i] \in DOMAIN idx
                /\ "frequency" \notin DOMAIN idx[field.text[i]]

\* a size that counts every DOC element
_build_index_elements(idx, docs) ==
    [AddDocs(idx, docs, 1) EXCEPT ![TotalKey].size = Len(docs)]

\* InvertedIndex._build_index
_build_index(idx, docs) ==
    LET built == AddDocs(idx, docs, 1)
    IN [built EXCEPT ![TotalKey].size = Cardinality(built[TotalKey].document_set)]

----------------------------------------------------------------------------
(* Phrase search *)

\* a lookup that reads the index and stores nothing
_word_dict_get(idx, word) ==
    IF word \in DOMAIN idx /\ "frequency" \notin DOMAIN idx[word]
    THEN [status |-> "KeyError", present |-> FALSE, word_dict |-> DefaultEntry, index |-> idx]
    ELSE [status |-> "ok",
          present |-> word \in DOMAIN idx /\ idx[word].frequency # 0,
          word_dict |-> IF word \in DOMAIN idx THEN idx[word] ELSE DefaultEntry,
          index |-> idx]

\* InvertedIndex._word_dict: reading a missing key of the defaultdict stores
\* the default entry under it; word_dict["frequency"] raises KeyError when the
\* entry read has no such field, as the one of "_total_document_set"
_word_dict(idx, word) ==
    LET idx2 == IF word \in DOMAIN idx THEN idx ELSE idx @@ (word :> DefaultEntry)
    IN IF "frequency" \notin DOMAIN idx2[word]
       THEN [status |-> "KeyError", present |-> FALSE, word_dict |-> DefaultEntry,
             index |-> idx2]
       ELSE [status |-> "ok", present |-> idx2[word].frequency # 0,
             word_dict |-> idx2[word], index |-> idx2]

RECURSIVE LookupWords(_, _, _)
\* the first loop of _phrase_search: stops at the first word that is not present
LookupWords(idx, word_list, n) ==
    IF n > Len(word_list) THEN [status |-> "ok", ok |-> TRUE, index |-> idx]
    ELSE LET r == _word_dict(idx, word_list[n])
         IN IF r.status # "ok" THEN [status |-> r.status, ok |-> FALSE, index |-> r.index]
            ELSE IF ~r.present THEN [status |-> "ok", ok |-> FALSE, index |-> r.index]
            ELSE LookupWords(r.index, word_list, n + 1)

\* entry["position_dict"][doc]
PositionsOf(entry, doc) ==
    IF doc \in DOMAIN entry.position_dict THEN entry.position_dict[doc] ELSE {}

\* what reading word_dict["position_dict"][document] for each of the documents
\* leaves: position_dict is a defaultdict(set), so a read of a missing
\* document stores an empty set under it
ReadPositions(idx, word, documents) ==
    IF documents \subseteq DOMAIN idx[word].position_dict THEN idx
    ELSE [idx EXCEPT ![word].position_dict =
              [d \in DOMAIN idx[word].position_dict \cup documents |->
                  PositionsOf(idx[word], d)]]

\* the reads of one pass of the loop over i: the positions of the current word
\* in each document of the pass, and those of the next word where the current
\* word has a position
ReadPass(idx, current_word, next_word, document_set) ==
    ReadPositions(ReadPositions(idx, current_word, document_set), next_word,
                  {d \in document_set : PositionsOf(idx[current_word], d) # {}})

\* an error raised where the phrase is not found
NotFound_raises(idx) == [status |-> "KeyError", found |-> FALSE, dict |-> <<>>, index |-> idx]

\* return False, {}
NotFound(idx) == [status |-> "ok", found |-> FALSE, dict |-> <<>>, index |-> idx]

\* the end of _phrase_search: the documents left, each with its sorted positions
PhraseResult(idx, potential_positions_dict) ==
    IF DOMAIN potential_positions_dict = {} THEN NotFound(idx)
    ELSE [status |-> "ok", found |-> TRUE,
          dict |-> [d \in DOMAIN potential_positions_dict |->
                       SortedList(potential_positions_dict[d])],
          index |-> idx]

\* the loop removing the position of the current word, not the start position
PrunedPositions_position(potential, current_word_dict, next_word_dict, i, match_doc) ==
    potential[match_doc] \
        {position \in PositionsOf(current_word_dict, match_doc) :
            (position + 1) \notin PositionsOf(next_word_dict, match_doc)}

\* the loop over the positions of the current word in one document: the
\* potential start positions that are left
PrunedPositions(potential, current_word_dict, next_word_dict, i, match_doc) ==
    potential[match_doc] \
        {position - i : position \in
            {q \in PositionsOf(current_word_dict, match_doc) :
                (q + 1) \notin PositionsOf(next_word_dict, match_doc)}}

RECURSIVE PhraseLoop(_, _, _, _, _)

\* a pass that prunes the position sets the index stores for the first word,
\* not copies of them
PhrasePass_stored(idx, word_list, i, document_set, pruned) ==
    LET docs_to_remove == {d \in document_set : pruned[d] = {}}
        idx2 == [idx EXCEPT ![word_list[1]].position_dict =
                     [d \in DOMAIN @ |-> IF d \in document_set THEN pruned[d] ELSE @[d]]]
    IN IF document_set # {} /\ docs_to_remove = document_set THEN NotFound(idx2)
       ELSE PhraseLoop(idx2, word_list, i + 1, document_set \ docs_to_remove,
                       [d \in document_set \ docs_to_remove |-> pruned[d]])

\* the end of one pass of "for i in range(len(word_list)-1)", with the
\* documents of the pass and the positions left in each
PhrasePass(idx, word_list, i, document_set, pruned) ==
    LET docs_to_remove == {d \in document_set : pruned[d] = {}}
    IN IF document_set # {} /\ docs_to_remove = document_set THEN NotFound(idx)
       ELSE PhraseLoop(idx, word_list, i + 1, document_set \ docs_to_remove,
                       [d \in document_set \ docs_to_remove |-> pruned[d]])

\* a pass over the documents of the pass before, not only those that hold the
\* next word too
PhraseLoop_unrestricted(idx, word_list, i, document_set, potential_positions_dict) ==
    IF i >= Len(word_list) - 1 THEN PhraseResult(idx, potential_positions_dict)
    ELSE PhrasePass(ReadPass(idx, word_list[i + 1], word_list[i + 2], document_set),
                    word_list, i, document_set,
                    [d \in document_set |->
                        PrunedPositions(potential_positions_dict, idx[word_list[i + 1]],
                                        idx[word_list[i + 2]], i, d)])

\* "for i in range(len(word_list)-1)" from pass i on
PhraseLoop(idx, word_list, i, document_set, potential_positions_dict) ==
    IF i >= Len(word_list) - 1 THEN PhraseResult(idx, potential_positions_dict)
    ELSE PhrasePass(ReadPass(idx, word_list[i + 1], word_list[i + 2],
                             document_set \cap idx[word_list[i + 2]].document_set),
                    word_list, i,
                    document_set \cap idx[word_list[i + 2]].document_set,
                    [d \in document_set \cap idx[word_list[i + 2]].document_set |->
                        PrunedPositions(potential_positions_dict, idx[word_list[i + 1]],
                                        idx[word_list[i + 2]], i, d)])

\* _phrase_search after its first loop; word_dicts[0] of an empty list raises
\* IndexError
PhraseAfterLookup(word_list, looked) ==
    IF looked.status # "ok"
    THEN [status |-> looked.status, found |-> FALSE, dict |-> <<>>, index |-> looked.index]
    ELSE IF ~looked.ok THEN NotFound(looked.index)
    ELSE IF word_list = <<>>
    THEN [status |-> "IndexError", found |-> FALSE, dict |-> <<>>, index |-> looked.index]
    ELSE PhraseLoop(ReadPositions(looked.index, word_list[1],
                                  looked.index[word_list[1]].document_set),
                    word_list, 0,
                    looked.index[word_list[1]].document_set,
                    [d \in looked.index[word_list[1]].document_set |->
                        PositionsOf(looked.index[word_list[1]], d)])

\* InvertedIndex._phrase_search
_phrase_search(idx, text_input_string, rsw) ==
    PhraseAfterLookup(my_preprocessor(text_input_string, rsw),
                      LookupWords(idx, my_preprocessor(text_input_string, rsw), 1))

\* the keys of the dictionary a phrase search returned, or the empty set
DocumentsOf(r) ==
    [status |-> r.status, docs |-> IF r.found THEN DOMAIN r.dict ELSE {}, index |-> r.index]

\* InvertedIndex._documents_containing_phrase
_documents_containing_phrase(idx, phrase, rsw) == DocumentsOf(_phrase_search(idx, phrase, rsw))

\* a NOT that forgets to take the documents of the phrase away
_not_operator_all(idx, document_set) == idx[TotalKey].document_set

\* InvertedIndex._not_operator
_not_operator(idx, document_set) == idx[TotalKey].document_set \ document_set

\* InvertedIndex._and_operator: set.intersection(*list_of_document_sets)
_and_operator(list_of_document_sets) ==
    {d \in list_of_document_sets[1] :
        \A n \in 1..Len(list_of_document_sets) : d \in list_of_document_sets[n]}

\* InvertedIndex._or_operator: set.union(*list_of_document_sets)
_or_operator(list_of_document_sets) ==
    UNION {list_of_document_sets[n] : n \in 1..Len(list_of_document_sets)}

----------------------------------------------------------------------------
(* Boolean queries *)

\* the items of the list boolean_query_parser returns
SetItem(S) == [kind |-> "set", docs |-> S]
ConnectorItem(tok) == [kind |-> tok.kind, docs |-> {}]

RECURSIVE InitialLen(_)
\* the tokens matched by ((?!\bAND\b|\bOR\b).)+ : up to the first AND or OR
InitialLen(text) ==
    IF text = <<>> \/ IsConnector(Head(text)) THEN 0 ELSE 1 + InitialLen(Tail(text))

RECURSIVE ParseLoop(_, _, _, _)

\* one pass of the while loop after documents_function returned found: the
\* item is appended, then the connector and the remaining text decide
ParseAppend(rest, initial_NOT, document_AND_OR_list, rsw, found) ==
    LET item == IF initial_NOT THEN _not_operator(found.index, found.docs) ELSE found.docs
    IN IF found.status # "ok"
       THEN [status |-> found.status, list |-> <<>>, index |-> found.index]
       ELSE IF rest = <<>>
       THEN [status |-> "ok", list |-> Append(document_AND_OR_list, SetItem(item)),
             index |-> found.index]
       ELSE IF Tail(rest) = <<>>
       THEN \* a connector and no remaining text: sys.exit(-1)
            [status |-> "exit", list |-> <<>>, index |-> found.index]
       ELSE ParseLoop(found.index, Tail(rest),
                      document_AND_OR_list \o <<SetItem(item), ConnectorItem(Head(rest))>>,
                      rsw)

\* one pass of the while loop when the pattern matches, n tokens being the
\* group "initial".  (NOT)? takes a leading NOT when a character is left for
\* the phrase: another token, or the space before the connector
ParseMatch(idx, text, n, document_AND_OR_list, rsw) ==
    LET initial_NOT == Head(text).kind = "NOT" /\ (n >= 2 \/ Len(text) > n)
        initial_text == SubSeq(text, IF initial_NOT THEN 2 ELSE 1, n)
    IN ParseAppend(SubSeq(text, n + 1, Len(text)), initial_NOT, document_AND_OR_list, rsw,
                   _documents_containing_phrase(idx, initial_text, rsw))

\* the while loop of boolean_query_parser, with documents_function and
\* not_function the methods boolean_query passes
ParseLoop(idx, text, document_AND_OR_list, rsw) ==
    IF InitialLen(text) = 0
    THEN \* no match: sys.exit(-1)
         [status |-> "exit", list |-> <<>>, index |-> idx]
    ELSE ParseMatch(idx, text, InitialLen(text), document_AND_OR_list, rsw)

\* boolean_query_parser
boolean_query_parser(idx, text, rsw) == ParseLoop(idx, text, <<>>, rsw)

\* what a pass of the loop leaves: whether the loop goes on, the text and the
\* list, and the index as the phrase search left it
PassResult(status, continue_loop, text, list, idx) ==
    [status |-> status, continue_loop |-> continue_loop, text |-> text, list |-> list,
     index |-> idx]

\* one pass of "while continue_loop == True" of boolean_query_parser, from the
\* match of the pattern to the assignment text = remaining_text
ParsePassOf(idx, text, document_AND_OR_list, rsw) ==
    LET n == InitialLen(text)
        initial_NOT == Head(text).kind = "NOT" /\ (n >= 2 \/ Len(text) > n)
        initial_text == SubSeq(text, IF initial_NOT THEN 2 ELSE 1, n)
        found == _documents_containing_phrase(idx, initial_text, rsw)
        item == IF initial_NOT THEN _not_operator(found.index, found.docs) ELSE found.docs
        rest == SubSeq(text, n + 1, Len(text))
    IN IF n = 0
       THEN \* no match: sys.exit(-1)
            PassResult("exit", FALSE, text, document_AND_OR_list, idx)
       ELSE IF found.status # "ok"
       THEN \* documents_function raised
            PassResult(found.status, FALSE, text, document_AND_OR_list, found.index)
       ELSE IF rest = <<>>
       THEN \* no connector and no remaining text: continue_loop = False
            PassResult("ok", FALSE, text, Append(document_AND_OR_list, SetItem(item)),
                       found.index)
       ELSE IF Tail(rest) = <<>>
       THEN \* a connector and no remaining text: sys.exit(-1)
            PassResult("exit", FALSE, text, Append(document_AND_OR_list, SetItem(item)),
                       found.index)
       ELSE PassResult("ok", TRUE, Tail(rest),
                       document_AND_OR_list \o <<SetItem(item), ConnectorItem(Head(rest))>>,
                       found.index)

RECURSIVE GroupSets(_, _, _)
\* _AND_OR_list[lo:hi] with the "AND" items dropped, as the list of the sets
GroupSets(list, lo, hi) ==
    IF lo > hi THEN <<>>
    ELSE (IF list[lo].kind = "AND" THEN <<>> ELSE <<list[lo].docs>>)
         \o GroupSets(list, lo + 1, hi)

\* the whole list as one group: OR read as AND
AndGroups_one(list, OR_Positions) ==
    <<[n \in 1..((Len(list) + 1) \div 2) |-> list[2 * n - 1].docs]>>

\* _AND_list: the slices of _AND_OR_list between one "OR" and the next
AndGroups(list, OR_Positions) ==
    [g \in 1..(Len(OR_Positions) + 1) |->
        GroupSets(list,
                  IF g = 1 THEN 1 ELSE OR_Positions[g - 1] + 1,
                  IF g = Len(OR_Positions) + 1 THEN Len(list) ELSE OR_Positions[g] - 1)]

\* OR_sets: the intersection of each group
OrSets(_AND_list) == [g \in 1..Len(_AND_list) |-> _and_operator(_AND_list[g])]

\* a result in descending order
BooleanResult_descending(parsed) ==
    IF parsed.status # "ok"
    THEN [status |-> parsed.status, result |-> <<>>, index |-> parsed.index]
    ELSE LET final_set == _or_operator(OrSets(AndGroups(parsed.list,
                 SortedList({i \in 1..Len(parsed.list) : parsed.list[i].kind = "OR"}))))
         IN [status |-> "ok",
             result |-> [n \in 1..Cardinality(final_set) |->
                           SortedList(final_set)[Cardinality(final_set) + 1 - n]],
             index |-> parsed.index]

\* boolean_query after the parser returned
BooleanResult(parsed) ==
    IF parsed.status # "ok"
    THEN [status |-> parsed.status, result |-> <<>>, index |-> parsed.index]
    ELSE [status |-> "ok",
          result |-> SortedList(_or_operator(OrSets(AndGroups(parsed.list,
                        SortedList({i \in 1..Len(parsed.list) : parsed.list[i].kind = "OR"}))))),
          index |-> parsed.index]

\* InvertedIndex.boolean_query
boolean_query(idx, text, rsw) == BooleanResult(boolean_query_parser(idx, text, rsw))

----------------------------------------------------------------------------
(* proximity(): the merge of two sorted position lists.  min_proximity is   *)
(* <<>> for np.inf and <<m>> for the number m.  Python's 0-based            *)
(* merged_list[i] is merged_list[i + 1] here.                               *)

\* the local variables after the "Edge case: Starting" block
ProxStart(list_0, list_1) ==
    LET from_0 == list_0[1] <= list_1[1]
    IN [list_0 |-> list_0, list_1 |-> list_1,
        min_proximity |-> <<>>, positions |-> <<>>,
        list_0_counter |-> IF from_0 THEN 1 ELSE 0,
        list_1_counter |-> IF from_0 THEN 0 ELSE 1,
        i |-> 1,
        previous_list_add |-> IF from_0 THEN 0 ELSE 1,
        merged_list |-> IF from_0 THEN <<list_0[1]>> ELSE <<list_1[1]>>,
        iterations |-> 0]

\* a comparison of every two neighbours of the merged list, whichever lists
\* they come from
ProxCompare_neighbours(s, merged_list, current_list_add) ==
    LET current_proximity == Abs(merged_list[s.i + 1] - merged_list[s.i])
        pair == <<merged_list[s.i], merged_list[s.i + 1]>>
    IN IF s.min_proximity = <<>> \/ current_proximity < s.min_proximity[1]
       THEN [min_proximity |-> <<current_proximity>>, positions |-> <<pair>>]
       ELSE IF current_proximity = s.min_proximity[1]
       THEN [min_proximity |-> s.min_proximity, positions |-> Append(s.positions, pair)]
       ELSE [min_proximity |-> s.min_proximity, positions |-> s.positions]

\* a comparison that keeps the first pair of the minimum and drops the ties
ProxCompare_first(s, merged_list, current_list_add) ==
    LET current_proximity == Abs(merged_list[s.i + 1] - merged_list[s.i])
        pair == IF current_list_add = 1
                THEN <<merged_list[s.i], merged_list[s.i + 1]>>
                ELSE <<merged_list[s.i + 1], merged_list[s.i]>>
    IN IF current_list_add + s.previous_list_add # 1
       THEN [min_proximity |-> s.min_proximity, positions |-> s.positions]
       ELSE IF s.min_proximity = <<>> \/ current_proximity < s.min_proximity[1]
       THEN [min_proximity |-> <<current_proximity>>, positions |-> <<pair>>]
       ELSE [min_proximity |-> s.min_proximity, positions |-> s.positions]

\* the block "if current_list_add + previous_list_add == 1: ..." that every
\* branch of the loop repeats, run after the append to merged_list
ProxCompare(s, merged_list, current_list_add) ==
    LET current_proximity == Abs(merged_list[s.i + 1] - merged_list[s.i])
        pair == IF current_list_add = 1
                THEN <<merged_list[s.i], merged_list[s.i + 1]>>
                ELSE <<merged_list[s.i + 1], merged_list[s.i]>>
    IN IF current_list_add + s.previous_list_add # 1
       THEN [min_proximity |-> s.min_proximity, positions |-> s.positions]
       ELSE IF s.min_proximity = <<>> \/ current_proximity < s.min_proximity[1]
       THEN [min_proximity |-> <<current_proximity>>, positions |-> <<pair>>]
       ELSE IF current_proximity = s.min_proximity[1]
       THEN [min_proximity |-> s.min_proximity, positions |-> Append(s.positions, pair)]
       ELSE [min_proximity |-> s.min_proximity, positions |-> s.positions]

\* the assignments to min_proximity and positions
ProxSet(s, c) == [s EXCEPT !.min_proximity = c.min_proximity, !.positions = c.positions]

\* merged_list.append(the next element of list_0)
Take0(s) == Append(s.merged_list, s.list_0[s.list_0_counter + 1])

\* merged_list.append(the next element of list_1)
Take1(s) == Append(s.merged_list, s.list_1[s.list_1_counter + 1])

\* one pass of "while i < (len(list_0) + len(list_1))"
ProxIter(s) ==
    IF s.list_0_counter = Len(s.list_0)
    THEN \* list_0 is used up: one more of list_1, the rest in one piece, and
         \* i = len(list_0) + len(list_1) before the i += 1 that ends the pass
         ProxSet([s EXCEPT !.list_1_counter = @ + 1,
                           !.merged_list =
                               IF s.list_1_counter + 1 < Len(s.list_1)
                               THEN Append(Take1(s), SubSeq(s.list_1, s.list_1_counter + 2,
                                                            Len(s.list_1)))
                               ELSE Take1(s),
                           !.i = Len(s.list_0) + Len(s.list_1) + 1,
                           !.iterations = @ + 1],
                 ProxCompare(s, Take1(s), 1))
    ELSE IF s.list_1_counter = Len(s.list_1)
    THEN \* list_1 is used up: one more of list_0, the rest in one piece, break
         ProxSet([s EXCEPT !.list_0_counter = @ + 1,
                           !.merged_list =
                               IF s.list_0_counter + 1 < Len(s.list_0)
                               THEN Append(Take0(s), SubSeq(s.list_0, s.list_0_counter + 2,
                                                            Len(s.list_0)))
                               ELSE Take0(s),
                           !.i = Len(s.list_0) + Len(s.list_1),
                           !.iterations = @ + 1],
                 ProxCompare(s, Take0(s), 0))
    ELSE IF s.list_0[s.list_0_counter + 1] <= s.list_1[s.list_1_counter + 1]
    THEN ProxSet([s EXCEPT !.list_0_counter = @ + 1,
                           !.merged_list = Take0(s),
                           !.previous_list_add = 0,
                           !.i = @ + 1,
                           !.iterations = @ + 1],
                 ProxCompare(s, Take0(s), 0))
    ELSE ProxSet([s EXCEPT !.list_1_counter = @ + 1,
                           !.merged_list = Take1(s),
                           !.previous_list_add = 1,
                           !.i = @ + 1,
                           !.iterations = @ + 1],
                 ProxCompare(s, Take1(s), 1))

\* i < (len(list_0) + len(list_1))
ProxRunning(s) == s.i < Len(s.list_0) + Len(s.list_1)

RECURSIVE ProxRun(_)
ProxRun(s) == IF ProxRunning(s) THEN ProxRun(ProxIter(s)) ELSE s

\* return min_proximity, positions
ProxReturn(s) == [min_proximity |-> s.min_proximity, positions |-> s.positions]

\* proximity(list_0, list_1)
proximity(list_0, list_1) == ProxReturn(ProxRun(ProxStart(list_0, list_1)))

----------------------------------------------------------------------------
(* Proximity search *)

\* a strict comparison with the threshold
WithinProximity_strict(min_proximity, proximity_value) ==
    min_proximity # <<>> /\ min_proximity[1] < proximity_value

\* doc_tuple[1][0] <= proximity_value, where np.inf is above every number
WithinProximity(min_proximity, proximity_value) ==
    min_proximity # <<>> /\ min_proximity[1] <= proximity_value

\* the documents that hold both phrases, at whatever distance
ProximityOfBoth_cooccur(proximity_value, first, second) ==
    IF second.status # "ok"
    THEN [status |-> second.status, result |-> <<>>, index |-> second.index]
    ELSE IF ~second.found
    THEN [status |-> "ok", result |-> <<>>, index |-> second.index]
    ELSE [status |-> "ok",
          result |-> SortedList(DOMAIN first.dict \cap DOMAIN second.dict),
          index |-> second.index]

\* _proximity_search after both phrase searches returned
ProximityOfBoth(proximity_value, first, second) ==
    IF second.status # "ok"
    THEN [status |-> second.status, result |-> <<>>, index |-> second.index]
    ELSE IF ~second.found
    THEN [status |-> "ok", result |-> <<>>, index |-> second.index]
    ELSE [status |-> "ok",
          result |-> SortedList({doc \in DOMAIN first.dict \cap DOMAIN second.dict :
                        WithinProximity(
                            proximity(first.dict[doc], second.dict[doc]).min_proximity,
                            proximity_value)}),
          index |-> second.index]

\* _proximity_search after the search of the first phrase returned
ProximityOfFirst(tuple_of_two_phrases, proximity_value, rsw, first) ==
    IF first.status # "ok"
    THEN [status |-> first.status, result |-> <<>>, index |-> first.index]
    ELSE IF ~first.found
    THEN [status |-> "ok", result |-> <<>>, index |-> first.index]
    ELSE ProximityOfBoth(proximity_value, first,
                         _phrase_search(first.index, tuple_of_two_phrases[2], rsw))

\* InvertedIndex._proximity_search
_proximity_search(idx, tuple_of_two_phrases, proximity_value, rsw) ==
    ProximityOfFirst(tuple_of_two_phrases, proximity_value, rsw,
                     _phrase_search(idx, tuple_of_two_phrases[1], rsw))

----------------------------------------------------------------------------
(* TF-IDF ranking.  Scores are fixed-point numbers: np.log10 is a table in  *)
(* thousandths, a weight is in millionths.  The table is strictly           *)
(* increasing on 1..10, so a weight is 0 exactly when the float is 0.0.     *)

RECURSIVE log10(_)
log10(n) ==
    CASE n <= 1 -> 0
      [] n = 2 -> 301
      [] n = 3 -> 477
      [] n = 4 -> 602
      [] n = 5 -> 698
      [] n = 6 -> 778
      [] n = 7 -> 845
      [] n = 8 -> 903
      [] n = 9 -> 954
      [] OTHER -> 1000 + log10(n \div 10)

\* a smoothed inverse document frequency: log10((N + 1) / df)
_tfidf_term_weighting_smoothed(idx, term_dict, document) ==
    IF document \notin term_dict.document_set THEN 0
    ELSE (1000 + log10(Cardinality(PositionsOf(term_dict, document))))
         * (log10(idx[TotalKey].size + 1) - log10(Cardinality(term_dict.document_set)))

\* the ratio of the inverse document frequency turned over: log10(df / N)
_tfidf_term_weighting_inverted(idx, term_dict, document) ==
    IF document \notin term_dict.document_set THEN 0
    ELSE (1000 + log10(Cardinality(PositionsOf(term_dict, document))))
         * (log10(Cardinality(term_dict.document_set)) - log10(idx[TotalKey].size))

\* InvertedIndex._tfidf_term_weighting
_tfidf_term_weighting(idx, term_dict, document) ==
    IF document \notin term_dict.document_set THEN 0
    ELSE LET my_N == idx[TotalKey].size
             term_frequency == Cardinality(PositionsOf(term_dict, document))
             document_frequency == Cardinality(term_dict.document_set)
         IN (1000 + log10(term_frequency)) * (log10(my_N) - log10(document_frequency))

RECURSIVE AddWeights_assign(_, _, _, _)
\* a weight assigned to the document's score, not added to it
AddWeights_assign(idx, term_dict, documents, wtd) ==
    IF documents = <<>> THEN wtd
    ELSE LET document == Head(documents)
             w == _tfidf_term_weighting(idx, term_dict, document)
             at == {n \in 1..Len(wtd) : wtd[n][1] = document}
             wtd2 == IF at = {} THEN Append(wtd, <<document, w>>)
                     ELSE [wtd EXCEPT ![Min(at)] = <<document, w>>]
         IN AddWeights_assign(idx, term_dict, Tail(documents), wtd2)

RECURSIVE AddWeights(_, _, _, _)
\* "for document in document_set: wtd_score_dict[document] += ...", the set
\* walked in ascending order; wtd is the list of (document, score) in the
\* order of insertion into wtd_score_dict
AddWeights(idx, term_dict, documents, wtd) ==
    IF documents = <<>> THEN wtd
    ELSE LET document == Head(documents)
             w == _tfidf_term_weighting(idx, term_dict, document)
             at == {n \in 1..Len(wtd) : wtd[n][1] = document}
             wtd2 == IF at = {} THEN Append(wtd, <<document, w>>)
                     ELSE [wtd EXCEPT ![Min(at)] = <<document, @[2] + w>>]
         IN AddWeights(idx, term_dict, Tail(documents), wtd2)

RECURSIVE ScoreTerms(_, _, _, _)
\* "for term in list_of_terms: ..." of ranked_ir_tfidf
ScoreTerms(idx, list_of_terms, n, wtd) ==
    IF n > Len(list_of_terms) THEN [status |-> "ok", wtd |-> wtd, index |-> idx]
    ELSE LET r == _word_dict(idx, list_of_terms[n])
         IN IF r.status # "ok" THEN [status |-> r.status, wtd |-> wtd, index |-> r.index]
            ELSE
            ScoreTerms(IF r.present
                       THEN ReadPositions(r.index, list_of_terms[n],
                                          r.word_dict.document_set)
                       ELSE r.index,
                       list_of_terms, n + 1,
                       IF r.present
                       THEN AddWeights(r.index, r.word_dict,
                                       SortedList(r.word_dict.document_set), wtd)
                       ELSE wtd)

RECURSIVE SortedByScore_last(_)
\* a sort that takes the last of the items of the highest score first
SortedByScore_last(items) ==
    IF items = <<>> THEN <<>>
    ELSE LET best == -Min({-n : n \in {k \in 1..Len(items) :
                                \A m \in 1..Len(items) : items[m][2] <= items[k][2]}})
         IN <<items[best]>>
            \o SortedByScore_last(SubSeq(items, 1, best - 1)
                                  \o SubSeq(items, best + 1, Len(items)))

RECURSIVE SortedByScore(_)
\* sorted(items, key=lambda x: x[1], reverse=True): stable, so among equal
\* scores the earlier item stays first
SortedByScore(items) ==
    IF items = <<>> THEN <<>>
    ELSE LET best == Min({n \in 1..Len(items) :
                            \A m \in 1..Len(items) : items[m][2] <= items[n][2]})
         IN <<items[best]>>
            \o SortedByScore(SubSeq(items, 1, best - 1) \o SubSeq(items, best + 1, Len(items)))

\* the dict comprehension that builds remove_zero_sorted_wtd_score
RemoveZero(sorted_wtd_score) == sorted_wtd_score

\* InvertedIndex.ranked_ir_tfidf: the (document, score) items of the dict returned
ranked_ir_tfidf(idx, text_query, rsw) ==
    LET scored == ScoreTerms(idx, my_preprocessor(text_query, rsw), 1, <<>>)
    IN [status |-> scored.status,
        result |-> IF scored.status = "ok" THEN RemoveZero(SortedByScore(scored.wtd))
                   ELSE <<>>,
        index |-> scored.index]

----------------------------------------------------------------------------
(* Export and the query files *)

RECURSIVE PositionsText_trailing(_, _)
\* every position followed by a comma, the last one too
PositionsText_trailing(term_list, i) ==
    IF i >= Len(term_list) THEN <<"\n">>
    ELSE <<ToString(term_list[i + 1]), ",">> \o PositionsText_trailing(term_list, i + 1)

RECURSIVE PositionsText(_, _)
\* the writes of f"{term_list[i]}," for i in range(term_frequency - 1), then
\* of f"{term_list[term_frequency-1]}\n", from i on; term_list[-1] of an empty
\* list raises IndexError
PositionsText(term_list, i) ==
    IF term_list = <<>> THEN <<"IndexError">>
    ELSE IF i >= Len(term_list) - 1 THEN <<ToString(term_list[Len(term_list)]), "\n">>
    ELSE <<ToString(term_list[i + 1]), ",">> \o PositionsText(term_list, i + 1)

RECURSIVE DocumentLines(_, _)
\* the writes of the loop "for doc_id in sorted(list(document_set))"
DocumentLines(entry, doc_ids) ==
    IF doc_ids = <<>> THEN <<>>
    ELSE <<"\t", ToString(Head(doc_ids)), ": ">>
         \o PositionsText(SortedList(PositionsOf(entry, Head(doc_ids))), 0)
         \o DocumentLines(entry, Tail(doc_ids))

\* InvertedIndex.write_index_to_file: what is written for each key but
\* "_total_document_set", as the pieces of text in the order of the writes
write_index_to_file(idx) ==
    [word \in Terms(idx) |->
        <<word, ":", ToString(idx[word].frequency), "\n">>
        \o DocumentLines(idx[word], SortedList(idx[word].document_set))]

\* the index after write_index_to_file read the positions of each document of
\* each term
ReadAllPositions(idx) ==
    [word \in DOMAIN idx |->
        IF word = TotalKey THEN idx[word]
        ELSE ReadPositions(idx, word, idx[word].document_set)[word]]

\* what write_index_to_file raises: term_list[term_frequency-1] is term_list[-1]
\* of an empty list when a document of a term has no position
WriteStatus(idx) ==
    IF \E word \in Terms(idx) : \E doc_id \in idx[word].document_set :
           PositionsOf(idx[word], doc_id) = {}
    THEN "IndexError" ELSE "ok"

\* the words of a phrase of a proximity text, as tokens
PhraseTokens(words) == [n \in 1..Len(words) |-> Word(words[n])]

\* parse_proximity_query: the pattern ^#\d+\([\w\s]+,[\w\s]+\)$ matches a line
\* that is one proximity text and nothing else
parse_proximity_query(text) ==
    IF Len(text) = 1 /\ text[1].kind = "prox" /\ text[1].p1 # <<>> /\ text[1].p2 # <<>>
    THEN [status |-> "ok",
          phrase_tuple |-> <<PhraseTokens(text[1].p1), PhraseTokens(text[1].p2)>>,
          proximity |-> text[1].k]
    ELSE [status |-> "exit", phrase_tuple |-> <<>>, proximity |-> 0]

\* text[0] != "#"
StartsWithHash(text) == Head(text).kind \in {"prox", "badprox"}

\* a loop that hands every line to boolean_query
BooleanFileLine_boolean(idx, text, rsw) == boolean_query(idx, text, rsw)

\* the body of the loop of main over the lines of the boolean query file
BooleanFileLine(idx, text, rsw) ==
    IF ~StartsWithHash(text) THEN boolean_query(idx, text, rsw)
    ELSE IF parse_proximity_query(text).status # "ok"
    THEN [status |-> "exit", result |-> <<>>, index |-> idx]
    ELSE _proximity_search(idx, parse_proximity_query(text).phrase_tuple,
                           parse_proximity_query(text).proximity, rsw)

\* f"{i+1},{doc}\n" for each doc of output_list
OutputLines(i, output_list) == [n \in 1..Len(output_list) |-> <<i + 1, output_list[n]>>]

----------------------------------------------------------------------------
(* The inputs of the model *)

Fields(n) == {None} \cup {Element(words) : words \in SeqsUpTo(CorpusWords, n)}

\* the document collections: up to MaxDocs documents with the ids 0, 1, ...
Roots(heads, texts) ==
    UNION {{[n \in 1..k |-> [DOCNO |-> n - 1, HEADLINE |-> f[n][1], TEXT |-> f[n][2]]] :
               f \in [1..k -> heads \X texts]} : k \in 0..MaxDocs}

QueryWords == CorpusWords \cup {UnknownWord}

Phrases(n) == {[m \in 1..Len(q) |-> Word(q[m])] : q \in SeqsUpTo(QueryWords, n)}

\* the proximity texts #k(a,b)
ProxTexts == {ProxText(k, <<"a">>, <<"b">>) : k \in 1..MaxThreshold}

\* the lines of the boolean query file: well-formed ones, ones with a trailing
\* connector, a leading connector, a missing operand and a bare NOT, proximity
\* texts, one without threshold, and proximity texts inside a boolean expression
FileLines ==
    {<<Word("a"), AND, Word("b")>>, <<NOT, Word(UnknownWord)>>,
     <<Word("a"), AND>>, <<OR, Word("b")>>, <<Word("a"), AND, OR, Word("b")>>,
     <<NOT, AND, Word("b")>>, <<BadProxText(<<"a">>, <<"b">>)>>}
    \cup {<<t>> : t \in ProxTexts}
    \cup {<<NOT, t>> : t \in ProxTexts}
    \cup {<<t, AND, Word("a")>> : t \in ProxTexts}
    \cup {<<Word("b"), OR, t>> : t \in ProxTexts}

Files == UNION {[1..k -> FileLines] : k \in 0..MaxLines}

RankedLines == Phrases(1)

\* the bodies of the documents of a run: the short ones, and one that spells
\* the words of a proximity text out, the number first
RunTexts ==
    Fields(MaxTextLen)
    \cup {Element(convert_non_alphanumeric_to_space(t)) : t \in ProxTexts}

NoOp == [name |-> "none"]
Idle == [running |-> FALSE]

----------------------------------------------------------------------------
(* main(): the run of the program *)

Init ==
    /\ file_path \in {"documents", "missing", "malformed"}
    /\ root \in IF file_path = "documents" THEN Roots({None}, RunTexts) ELSE {<<>>}
    /\ inverted_index = EmptyIndex
    /\ remove_stop_words = FALSE
    /\ pc = "start"
    /\ boolean_file \in Files
    /\ line_no = 0
    /\ boolean_output = <<>>
    /\ index_file = <<>>
    /\ op = NoOp
    /\ prox = Idle
    /\ parser = Idle

\* a run that catches what a query raises and goes on
AfterStatus_caught(status, here) == here

\* where an uncaught SystemExit or IndexError leaves the run
AfterStatus(status, here) ==
    CASE status = "ok" -> here
      [] status = "exit" -> "exited"
      [] OTHER -> "crashed"

\* a parse that takes a missing or malformed file for an empty collection
parse_xml_lenient(path, docs) == [status |-> "ok", root |-> docs]

\* parse_xml: FileNotFoundError when the path does not exist, the ParseError
\* of ET.parse when the file is not XML, else the root of the tree
parse_xml(path, docs) ==
    CASE path = "missing" -> [status |-> "FileNotFoundError", root |-> <<>>]
      [] path = "malformed" -> [status |-> "ParseError", root |-> <<>>]
      [] OTHER -> [status |-> "ok", root |-> docs]

\* InvertedIndex.__init__: preprocess_xml, the empty index with its key
\* "_total_document_set", then _build_index; when one of them raises no index
\* is constructed
InvertedIndex(path, docs) ==
    IF parse_xml(path, docs).status # "ok"
    THEN [status |-> parse_xml(path, docs).status, index |-> EmptyIndex]
    ELSE IF BuildRaises(EmptyIndex, parse_xml(path, docs).root)
    THEN [status |-> "KeyError", index |-> EmptyIndex]
    ELSE [status |-> "ok", index |-> _build_index(EmptyIndex, parse_xml(path, docs).root)]

\* my_collection_index = InvertedIndex(...); what it raises is not caught
Construct ==
    /\ pc = "start"
    /\ inverted_index' = InvertedIndex(file_path, root).index
    /\ pc' = AfterStatus(InvertedIndex(file_path, root).status, "built")
    /\ UNCHANGED <<file_path, root, remove_stop_words, boolean_file, line_no, boolean_output,
                   index_file, op, prox, parser>>

\* my_collection_index.write_index_to_file('output/index.txt')
WriteIndex ==
    /\ pc = "built"
    /\ index_file' = write_index_to_file(inverted_index)
    /\ inverted_index' = ReadAllPositions(inverted_index)
    /\ pc' = "boolean"
    /\ UNCHANGED <<file_path, root, remove_stop_words, boolean_file, line_no,
                   boolean_output, op, prox, parser>>

\* what one pass over the boolean query file leaves, r being what the query
\* returned or raised
BooleanLineDone(text, r) ==
    /\ inverted_index' = r.index
    /\ op' = [name |-> "boolean_line", arg |-> text, status |-> r.status,
              result |-> r.result]
    /\ pc' = AfterStatus(r.status, pc)
    /\ line_no' = IF r.status = "ok" THEN line_no + 1 ELSE line_no
    /\ boolean_output' = IF r.status = "ok"
                         THEN boolean_output \o OutputLines(line_no, r.result)
                         ELSE boolean_output

\* one pass of "for i, line in enumerate(file)" over the boolean query file
BooleanLine ==
    /\ pc = "boolean"
    /\ line_no < Len(boolean_file)
    /\ BooleanLineDone(boolean_file[line_no + 1],
                       BooleanFileLine(inverted_index, boolean_file[line_no + 1],
                                       remove_stop_words))
    /\ UNCHANGED <<file_path, root, remove_stop_words, boolean_file, index_file, prox, parser>>

\* the boolean query file is read to its end
BooleanEnd ==
    /\ pc = "boolean"
    /\ line_no = Len(boolean_file)
    /\ pc' = "ranked"
    /\ line_no' = 0
    /\ op' = NoOp
    /\ UNCHANGED <<file_path, root, inverted_index, remove_stop_words, boolean_file,
                   boolean_output, index_file, prox, parser>>

\* one pass of the loop over the ranked query file, whose next line is text
RankedLine ==
    /\ pc = "ranked"
    /\ line_no < MaxLines
    /\ \E text \in RankedLines :
          LET r == ranked_ir_tfidf(inverted_index, text, remove_stop_words)
          IN /\ inverted_index' = r.index
             /\ op' = [name |-> "ranked_line", status |-> r.status]
             /\ pc' = AfterStatus(r.status, pc)
    /\ line_no' = line_no + 1
    /\ UNCHANGED <<file_path, root, remove_stop_words, boolean_file, boolean_output,
                   index_file, prox, parser>>

RankedEnd ==
    /\ pc = "ranked"
    /\ pc' = "interactive"
    /\ op' = NoOp
    /\ UNCHANGED <<file_path, root, inverted_index, remove_stop_words, boolean_file, line_no,
                   boolean_output, index_file, prox, parser>>

\* what one query of the user leaves
UserQueryDone(r) ==
    /\ inverted_index' = r.index
    /\ op' = [name |-> "user_query", status |-> r.status]
    /\ pc' = AfterStatus(r.status, pc)

\* one pass of "while True": the user enters a query
Interactive ==
    /\ pc = "interactive"
    /\ \E user_input \in FileLines :
          UserQueryDone(boolean_query(inverted_index, user_input, remove_stop_words))
    /\ UNCHANGED <<file_path, root, remove_stop_words, boolean_file, line_no, boolean_output,
                   index_file, prox, parser>>

\* the user enters "exit"
InteractiveExit ==
    /\ pc = "interactive"
    /\ pc' = "done"
    /\ op' = NoOp
    /\ UNCHANGED <<file_path, root, inverted_index, remove_stop_words, boolean_file, line_no,
                   boolean_output, index_file, prox, parser>>

Next ==
    \/ Construct
    \/ WriteIndex
    \/ BooleanLine
    \/ BooleanEnd
    \/ RankedLine
    \/ RankedEnd
    \/ Interactive
    \/ InteractiveExit

Spec == Init /\ [][Next]_vars

----------------------------------------------------------------------------
(* The methods of a constructed index, called one after the other *)

InitQuery(roots) ==
    /\ file_path = "documents"
    /\ root \in roots
    /\ inverted_index = _build_index(EmptyIndex, root)
    /\ remove_stop_words = FALSE
    /\ pc = "ready"
    /\ boolean_file = <<>>
    /\ line_no = 0
    /\ boolean_output = <<>>
    /\ index_file = <<>>
    /\ op = NoOp
    /\ prox = Idle
    /\ parser = Idle

\* what a call leaves: the index as the call left it, and what it returned or,
\* when it raised, the end of the process
Called(name, arg, r) ==
    /\ pc = "ready"
    /\ inverted_index' = r.index
    /\ op' = [name |-> name, arg |-> arg, status |-> r.status,
              result |-> IF name = "_phrase_search"
                         THEN [found |-> r.found, dict |-> r.dict]
                         ELSE r.result]
    /\ pc' = AfterStatus(r.status, "returned")
    /\ UNCHANGED <<file_path, root, remove_stop_words, boolean_file, line_no, boolean_output,
                   index_file, prox, parser>>

\* the caller takes the result
Return ==
    /\ pc = "returned"
    /\ pc' = "ready"
    /\ op' = NoOp
    /\ UNCHANGED <<file_path, root, inverted_index, remove_stop_words, boolean_file, line_no,
                   boolean_output, index_file, prox, parser>>

CallPhraseSearch ==
    \E phrase \in Phrases(MaxPhraseLen) :
        Called("_phrase_search", phrase,
               _phrase_search(inverted_index, phrase, remove_stop_words))

\* the arguments of _proximity_search: two phrases and a threshold
ProximityArgs ==
    {<<<<p1, p2>>, k>> : p1 \in Phrases(MaxPhraseLen - 1) \ {<<>>},
                         p2 \in Phrases(1) \ {<<>>},
                         k \in 0..MaxThreshold}

CallProximitySearch ==
    \E arg \in ProximityArgs :
        Called("_proximity_search", arg,
               _proximity_search(inverted_index, arg[1], arg[2], remove_stop_words))

\* the texts handed to boolean_query: the lines of the file, and phrases
SearchLines == FileLines \cup (Phrases(MaxPhraseLen - 1) \ {<<>>})

CallBooleanLine ==
    \E text \in SearchLines :
        Called("boolean_query", text,
               boolean_query(inverted_index, text, remove_stop_words))

CallRanked ==
    \E text \in Phrases(MaxPhraseLen - 1) :
        Called("ranked_ir_tfidf", text,
               ranked_ir_tfidf(inverted_index, text, remove_stop_words))

InitSearch == InitQuery(Roots(Fields(MaxHeadLen), Fields(MaxTextLen)))

NextSearch ==
    \/ CallPhraseSearch
    \/ CallProximitySearch
    \/ CallBooleanLine
    \/ CallRanked
    \/ Return

SpecSearch == InitSearch /\ [][NextSearch]_vars

----------------------------------------------------------------------------
(* Boolean and ranked queries on a constructed index *)

\* the well-formed texts of the grammar: operands, each with at least one
\* token after an optional NOT, joined by AND and OR
BooleanTokens == {AND, OR, NOT} \cup {Word(w) : w \in CorpusWords}

RECURSIVE Segments(_, _)
\* the operands of a text: the pieces between connectors
Segments(text, current) ==
    IF text = <<>> THEN <<current>>
    ELSE IF IsConnector(Head(text)) THEN <<current>> \o Segments(Tail(text), <<>>)
    ELSE Segments(Tail(text), Append(current, Head(text)))

\* the operand of a piece: what is left of it after a leading NOT
Operand(seg) == IF Len(seg) >= 2 /\ Head(seg) = NOT THEN Tail(seg) ELSE seg

IsProxOperand(x) == Len(x) = 1 /\ x[1].kind = "prox"

WellFormed(text) ==
    \A n \in 1..Len(Segments(text, <<>>)) :
        LET seg == Segments(text, <<>>)[n]
        IN /\ seg # <<>>
           /\ seg # <<NOT>>
           /\ \/ IsProxOperand(Operand(seg))
              \/ \A m \in 1..Len(seg) : seg[m].kind \in {"word", "NOT"}

BooleanTexts == {text \in SeqsUpTo(BooleanTokens, MaxQueryLen) : WellFormed(text)}

CallBooleanQuery ==
    \E text \in BooleanTexts :
        Called("boolean_query", text,
               boolean_query(inverted_index, text, remove_stop_words))

CallRankedQuery ==
    \E text \in Phrases(MaxPhraseLen) :
        Called("ranked_ir_tfidf", text,
               ranked_ir_tfidf(inverted_index, text, remove_stop_words))

InitBool == InitQuery(Roots({None}, Fields(MaxTextLen)))

NextBool ==
    \/ CallBooleanQuery
    \/ CallRankedQuery
    \/ Return

SpecBool == InitBool /\ [][NextBool]_vars

----------------------------------------------------------------------------
(* A call of proximity(), one pass of its loop at a time *)

\* the sorted lists of distinct positions
PositionLists ==
    {SortedList(S) : S \in {T \in SUBSET (0..MaxPos) : T # {} /\ Cardinality(T) <= MaxListLen}}

InitProx ==
    /\ file_path = "documents"
    /\ root = <<>>
    /\ inverted_index = EmptyIndex
    /\ remove_stop_words = FALSE
    /\ pc = "proximity"
    /\ boolean_file = <<>>
    /\ line_no = 0
    /\ boolean_output = <<>>
    /\ index_file = <<>>
    /\ op = NoOp
    /\ \E list_0 \in PositionLists, list_1 \in PositionLists :
          prox = ProxStart(list_0, list_1)
    /\ parser = Idle

ProxPass ==
    /\ pc = "proximity"
    /\ ProxRunning(prox)
    /\ prox' = ProxIter(prox)
    /\ UNCHANGED <<file_path, root, inverted_index, remove_stop_words, pc, boolean_file, line_no,
                   boolean_output, index_file, op, parser>>

ProxDone ==
    /\ pc = "proximity"
    /\ ~ProxRunning(prox)
    /\ pc' = "returned"
    /\ op' = [name |-> "proximity", arg |-> <<prox.list_0, prox.list_1>>,
              status |-> "ok", result |-> ProxReturn(prox)]
    /\ UNCHANGED <<file_path, root, inverted_index, remove_stop_words, boolean_file, line_no,
                   boolean_output, index_file, prox, parser>>

NextProx ==
    \/ ProxPass
    \/ ProxDone

SpecProx == InitProx /\ [][NextProx]_vars

----------------------------------------------------------------------------
(* The index used as a library: constructed, then queried and exported in   *)
(* any order, with a stop word and the word "_total_document_set" among the *)
(* words of the documents and of the queries                                *)

LibraryWords == {"a", TotalKey}

LibraryQueryWords == {"a", UnknownWord, "the", TotalKey}

LibraryTexts == {None} \cup {Element(words) : words \in SeqsUpTo(LibraryWords, MaxTextLen)}

LibraryPhrases ==
    {[m \in 1..Len(q) |-> Word(q[m])] : q \in SeqsUpTo(LibraryQueryWords, MaxPhraseLen - 1)}

\* the lines handed to the loop body of main: phrases, negated phrases,
\* proximity texts and a bare NOT before a connector
LibraryLines ==
    (LibraryPhrases \ {<<>>})
    \cup {<<NOT>> \o p : p \in LibraryPhrases \ {<<>>}}
    \cup {<<ProxText(MaxThreshold, <<w1>>, <<w2>>)>> :
              w1 \in LibraryQueryWords, w2 \in LibraryQueryWords}
    \cup {<<NOT, AND, Word("a")>>}

InitLibrary ==
    /\ file_path = "documents"
    /\ root \in Roots({None}, LibraryTexts)
    /\ inverted_index = EmptyIndex
    /\ remove_stop_words \in BOOLEAN
    /\ pc = "start"
    /\ boolean_file = <<>>
    /\ line_no = 0
    /\ boolean_output = <<>>
    /\ index_file = <<>>
    /\ op = NoOp
    /\ prox = Idle
    /\ parser = Idle

\* index = InvertedIndex(file_path, remove_stop_words, apply_stemming=False)
NewIndex ==
    /\ pc = "start"
    /\ inverted_index' = InvertedIndex(file_path, root).index
    /\ op' = [name |-> "InvertedIndex", arg |-> <<>>,
              status |-> InvertedIndex(file_path, root).status, result |-> <<>>]
    /\ pc' = AfterStatus(InvertedIndex(file_path, root).status, "ready")
    /\ UNCHANGED <<file_path, root, remove_stop_words, boolean_file, line_no, boolean_output,
                   index_file, prox, parser>>

CallLibraryLine ==
    \E text \in LibraryLines :
        Called("boolean_line", text,
               BooleanFileLine(inverted_index, text, remove_stop_words))

CallLibraryRanked ==
    \E text \in LibraryPhrases :
        Called("ranked_ir_tfidf", text,
               ranked_ir_tfidf(inverted_index, text, remove_stop_words))

\* index.write_index_to_file(path)
CallWriteIndex ==
    /\ pc = "ready"
    /\ index_file' = write_index_to_file(inverted_index)
    /\ inverted_index' = ReadAllPositions(inverted_index)
    /\ op' = [name |-> "write_index_to_file", arg |-> <<>>,
              status |-> WriteStatus(inverted_index), result |-> <<>>]
    /\ pc' = AfterStatus(WriteStatus(inverted_index), "returned")
    /\ UNCHANGED <<file_path, root, remove_stop_words, boolean_file, line_no, boolean_output,
                   prox, parser>>

NextLibrary ==
    \/ NewIndex
    \/ CallLibraryLine
    \/ CallLibraryRanked
    \/ CallWriteIndex
    \/ Return

SpecLibrary == InitLibrary /\ [][NextLibrary]_vars

----------------------------------------------------------------------------
(* A run of main() over the collection of two documents "cat sat on mat"    *)
(* and "dog sat near cat"                                                   *)

ScenarioRoot ==
    <<[DOCNO |-> 0, HEADLINE |-> None, TEXT |-> Element(<<"cat", "sat", "on", "mat">>)],
      [DOCNO |-> 1, HEADLINE |-> None, TEXT |-> Element(<<"dog", "sat", "near", "cat">>)]>>

ScenarioWords == {"cat", "sat", "dog"}

\* the lines of the boolean query file: two words joined by AND or OR, and
\* proximity texts
ScenarioLines ==
    {<<Word(w1), c, Word(w2)>> : w1 \in ScenarioWords, c \in {AND, OR}, w2 \in ScenarioWords}
    \cup {<<ProxText(k, <<w1>>, <<w2>>)>> :
              k \in 1..(MaxThreshold + 1), w1 \in ScenarioWords, w2 \in ScenarioWords}

InitScenario ==
    /\ file_path = "documents"
    /\ root = ScenarioRoot
    /\ inverted_index = EmptyIndex
    /\ remove_stop_words = FALSE
    /\ pc = "start"
    /\ boolean_file \in UNION {[1..k -> ScenarioLines] : k \in 0..MaxLines}
    /\ line_no = 0
    /\ boolean_output = <<>>
    /\ index_file = <<>>
    /\ op = NoOp
    /\ prox = Idle
    /\ parser = Idle

SpecScenario == InitScenario /\ [][Next]_vars

----------------------------------------------------------------------------
(* A call of remove_stop_words_function(words, stop_words) *)

StopWordInputs == CorpusWords \cup default_stop_words

InitStopWords ==
    /\ file_path = "documents"
    /\ root = <<>>
    /\ inverted_index = EmptyIndex
    /\ remove_stop_words = TRUE
    /\ pc = "called"
    /\ boolean_file = <<>>
    /\ line_no = 0
    /\ boolean_output = <<>>
    /\ index_file = <<>>
    /\ \E words \in SeqsUpTo(StopWordInputs, MaxPhraseLen), stop_words \in SUBSET StopWordInputs :
          op = [name |-> "remove_stop_words_function",
                arg |-> <<PhraseTokens(words), stop_words>>,
                status |-> "called", result |-> <<>>]
    /\ prox = Idle
    /\ parser = Idle

\* the call returns the list of the comprehension
ReturnStopWords ==
    /\ pc = "called"
    /\ op' = [op EXCEPT !.status = "ok",
                        !.result = remove_stop_words_function(op.arg[1], op.arg[2])]
    /\ pc' = "returned"
    /\ UNCHANGED <<file_path, root, inverted_index, remove_stop_words, boolean_file, line_no,
                   boolean_output, index_file, prox, parser>>

NextStopWords ==
    \/ ReturnStopWords

SpecStopWords == InitStopWords /\ [][NextStopWords]_vars

----------------------------------------------------------------------------
(* The loops of a query evaluation, one pass at a time: the while loop of   *)
(* boolean_query_parser and the one of proximity().  The interpreter runs   *)
(* a started call on, so the passes are weakly fair.                        *)

LoopTokens == {AND, OR, NOT, Word("a"), Word("the")}

\* the query strings: every sequence of tokens, well-formed or not
LoopTexts == SeqsUpTo(LoopTokens, MaxQueryLen - 1)

InitLoops ==
    /\ file_path = "documents"
    /\ boolean_file = <<>>
    /\ line_no = 0
    /\ boolean_output = <<>>
    /\ index_file = <<>>
    /\ \/ /\ pc = "parsing"
          /\ root \in Roots({None}, Fields(MaxHeadLen))
          /\ inverted_index = _build_index(EmptyIndex, root)
          /\ remove_stop_words \in BOOLEAN
          /\ \E text \in LoopTexts :
                /\ parser = [text |-> text, document_AND_OR_list |-> <<>>]
                /\ op = [name |-> "boolean_query_parser", arg |-> text,
                         status |-> "called", result |-> <<>>]
          /\ prox = Idle
       \/ /\ pc = "proximity"
          /\ root = <<>>
          /\ inverted_index = EmptyIndex
          /\ remove_stop_words = FALSE
          /\ \E list_0 \in PositionLists, list_1 \in PositionLists :
                prox = ProxStart(list_0, list_1)
          /\ parser = Idle
          /\ op = NoOp

\* what a pass of the parser's loop leaves
ParsePassDone(r) ==
    /\ inverted_index' = r.index
    /\ parser' = [text |-> r.text, document_AND_OR_list |-> r.list]
    /\ op' = IF r.continue_loop THEN op
             ELSE [op EXCEPT !.status = r.status,
                             !.result = IF r.status = "ok" THEN r.list ELSE <<>>]
    /\ pc' = IF r.continue_loop THEN "parsing" ELSE AfterStatus(r.status, "returned")

\* one pass of the while loop of boolean_query_parser
ParsePass ==
    /\ pc = "parsing"
    /\ ParsePassDone(ParsePassOf(inverted_index, parser.text, parser.document_AND_OR_list,
                                 remove_stop_words))
    /\ UNCHANGED <<file_path, root, remove_stop_words, boolean_file, line_no, boolean_output,
                   index_file, prox>>

NextLoops ==
    \/ ParsePass
    \/ ProxPass
    \/ ProxDone

SpecLoops == InitLoops /\ [][NextLoops]_vars /\ WF_vars(NextLoops)

----------------------------------------------------------------------------
(* What the queries are to return, read off the documents themselves *)

\* the token stream of a document: the headline, then the body
Stream(doc) ==
    (IF doc.HEADLINE.present THEN doc.HEADLINE.text ELSE <<>>)
    \o (IF doc.TEXT.present THEN doc.TEXT.text ELSE <<>>)

DocIds == {root[n].DOCNO : n \in 1..Len(root)}

DocOf(id) == root[CHOOSE n \in 1..Len(root) : root[n].DOCNO = id]

\* the documents with at least one token
NonEmptyDocs == {id \in DocIds : Stream(DocOf(id)) # <<>>}

\* the positions (from 0) where the words occur one after the other
Starts(id, words) ==
    {p \in 0..(Len(Stream(DocOf(id))) - Len(words)) :
        \A j \in 1..Len(words) : Stream(DocOf(id))[p + j] = words[j]}

PhraseDocs(words) == {id \in DocIds : words # <<>> /\ Starts(id, words) # {}}

\* min{|a - b| : a in A, b in B}
MinDistance(A, B) == Min({Abs(a - b) : a \in A, b \in B})

ProxDocs(k, words_1, words_2) ==
    {id \in PhraseDocs(words_1) \cap PhraseDocs(words_2) :
        MinDistance(Starts(id, words_1), Starts(id, words_2)) <= k}

RECURSIVE SplitAt(_, _, _)
\* the pieces of a text between the connectors of one kind
SplitAt(text, kind, current) ==
    IF text = <<>> THEN <<current>>
    ELSE IF Head(text).kind = kind THEN <<current>> \o SplitAt(Tail(text), kind, <<>>)
    ELSE SplitAt(Tail(text), kind, Append(current, Head(text)))

WordsOf(toks) == [n \in 1..Len(toks) |-> Lower(toks[n])]

OperandDocs(x) ==
    IF IsProxOperand(x) THEN ProxDocs(x[1].k, x[1].p1, x[1].p2)
    ELSE PhraseDocs(WordsOf(x))

TermDocs(seg) ==
    IF Operand(seg) # seg THEN NonEmptyDocs \ OperandDocs(Operand(seg))
    ELSE OperandDocs(seg)

\* the union, over the groups between ORs, of the intersection of the terms
BooleanDocs(text) ==
    UNION {{id \in DocIds :
              \A n \in 1..Len(SplitAt(group, "AND", <<>>)) :
                  id \in TermDocs(SplitAt(group, "AND", <<>>)[n])} :
           group \in Range(SplitAt(text, "OR", <<>>))}

----------------------------------------------------------------------------
(* Malformed lines of the boolean query file *)

\* a line the parsers reject: one that starts with # and is not exactly
\* #k(P1,P2), or a boolean text with nothing between two connectors, before
\* the first or after the last, or with a bare NOT before a connector
MalformedLine(text) ==
    IF StartsWithHash(text) THEN ~(Len(text) = 1 /\ text[1].kind = "prox")
    ELSE \E n \in 1..Len(Segments(text, <<>>)) :
            \/ Segments(text, <<>>)[n] = <<>>
            \/ Segments(text, <<>>)[n] = <<NOT>> /\ n < Len(Segments(text, <<>>))

Stopped == pc \in {"exited", "crashed"}

----------------------------------------------------------------------------
(* Ranked retrieval *)

\* C2: no document whose summed TF-IDF score is exactly zero is in the result
\* of ranked_ir_tfidf
C2_NoZeroScore ==
    (op.name = "ranked_ir_tfidf" /\ op.status = "ok") =>
        \A n \in 1..Len(op.result) : op.result[n][2] # 0

----------------------------------------------------------------------------
(* The keys of the index *)

\* the index as the constructor leaves it
Built == _build_index(EmptyIndex, root)

----------------------------------------------------------------------------
(* Phrase search *)

\* C4: _phrase_search of an n-word phrase returns True with exactly the
\* documents where the n words occur one after the other, each with exactly
\* the start positions of these occurrences in ascending order, and False with
\* an empty dictionary when there is no such document; for n = 1 that is the
\* document set of the term with all its positions
C4_PhraseSearchExact ==
    (op.name = "_phrase_search" /\ op.arg # <<>>) =>
        /\ op.status = "ok"
        /\ op.result.found <=> PhraseDocs(WordsOf(op.arg)) # {}
        /\ op.result.found =>
              /\ DOMAIN op.result.dict = PhraseDocs(WordsOf(op.arg))
              /\ \A d \in DOMAIN op.result.dict :
                    op.result.dict[d] = SortedList(Starts(d, WordsOf(op.arg)))
        /\ ~op.result.found => op.result.dict = <<>>
        /\ (op.result.found /\ Len(op.arg) = 1) =>
              /\ DOMAIN op.result.dict = inverted_index[op.arg[1].w].document_set
              /\ \A d \in DOMAIN op.result.dict :
                    op.result.dict[d] =
                        SortedList(inverted_index[op.arg[1].w].position_dict[d])

\* a three-word phrase found in one document and not in the other, which holds
\* all three words too
C4_Witness ==
    /\ pc = "returned"
    /\ op.name = "_phrase_search"
    /\ Len(op.arg) = 3
    /\ op.result.found
    /\ \E d \in DocIds \ DOMAIN op.result.dict :
          \A n \in 1..3 : Starts(d, <<op.arg[n].w>>) # {}

----------------------------------------------------------------------------
(* Boolean queries *)

\* C5: boolean_query returns the union, over the groups the ORs separate, of
\* the intersection of the operand sets of each group, where NOT applies to
\* the one operand it precedes: AND binds tighter than OR, NOT tighter than
\* both
C5_BooleanPrecedence ==
    op.name = "boolean_query" =>
        /\ op.status = "ok"
        /\ op.result = SortedList(BooleanDocs(op.arg))

\* 'A AND B OR C' returned (A and B) or C where A and (B or C) is another set,
\* or 'NOT A AND B' returned (not A) and B where not (A and B) is another set
C5_Witness ==
    /\ pc = "returned"
    /\ op.name = "boolean_query"
    /\ \/ /\ Len(op.arg) = 5 /\ op.arg[2] = AND /\ op.arg[4] = OR
          /\ Range(op.result) #
                 PhraseDocs(<<op.arg[1].w>>)
                 \cap (PhraseDocs(<<op.arg[3].w>>) \cup PhraseDocs(<<op.arg[5].w>>))
       \/ /\ Len(op.arg) = 4 /\ op.arg[1] = NOT /\ op.arg[3] = AND
          /\ Range(op.result) #
                 NonEmptyDocs \ (PhraseDocs(<<op.arg[2].w>>)
                                 \cap PhraseDocs(<<op.arg[4].w>>))

\* the texts NOT P with P a phrase: words, the first of which is not the
\* operator NOT
IsNotOfPhrase(text) ==
    /\ Len(text) >= 2
    /\ Head(text) = NOT
    /\ text[2] # NOT
    /\ \A n \in 2..Len(text) : ~IsConnector(text[n])

\* C6: for a phrase P, unknown terms included, the results of the boolean
\* queries P and NOT P are disjoint and their union is totalDocumentSet
C6_NotIsComplement ==
    (op.name = "boolean_query" /\ IsNotOfPhrase(op.arg)) =>
        /\ op.status = "ok"
        /\ Range(op.result)
           \cap Range(boolean_query(inverted_index, Tail(op.arg),
                                    remove_stop_words).result) = {}
        /\ Range(op.result)
           \cup Range(boolean_query(inverted_index, Tail(op.arg),
                                    remove_stop_words).result)
           = inverted_index[TotalKey].document_set

\* NOT P returned where P matches one of two documents
C6_Witness ==
    /\ pc = "returned"
    /\ op.name = "boolean_query"
    /\ IsNotOfPhrase(op.arg)
    /\ Len(op.result) = 1
    /\ Cardinality(inverted_index[TotalKey].document_set) = 2
    /\ boolean_query(inverted_index, Tail(op.arg), remove_stop_words).result # <<>>

----------------------------------------------------------------------------
(* Proximity operands *)

HasProxOperand(text) == \E n \in 1..Len(text) : text[n].kind = "prox"

\* the text with each #k(P1,P2) replaced by the words k P1 P2
RECURSIVE ProxAsWords(_)
ProxAsWords(text) ==
    IF text = <<>> THEN <<>>
    ELSE (IF Head(text).kind = "prox"
          THEN PhraseTokens(convert_non_alphanumeric_to_space(Head(text)))
          ELSE <<Head(text)>>) \o ProxAsWords(Tail(text))

----------------------------------------------------------------------------
(* Proximity search *)

\* C8: _proximity_search((P1, P2), k) returns, in ascending order, exactly the
\* documents where both phrases occur and some start of P1 and some start of
\* P2 are at most k apart, and the empty list when a phrase occurs nowhere
C8_ProximitySearchExact ==
    op.name = "_proximity_search" =>
        /\ op.status = "ok"
        /\ op.result = SortedList(ProxDocs(op.arg[2], WordsOf(op.arg[1][1]),
                                           WordsOf(op.arg[1][2])))
        /\ (PhraseDocs(WordsOf(op.arg[1][1])) = {}
            \/ PhraseDocs(WordsOf(op.arg[1][2])) = {}) => op.result = <<>>

\* a search returned one document and left out another that holds both
\* phrases, further apart than k
C8_Witness ==
    /\ pc = "returned"
    /\ op.name = "_proximity_search"
    /\ op.result # <<>>
    /\ \E d \in (PhraseDocs(WordsOf(op.arg[1][1])) \cap PhraseDocs(WordsOf(op.arg[1][2])))
                \ Range(op.result) :
          MinDistance(Starts(d, WordsOf(op.arg[1][1])),
                      Starts(d, WordsOf(op.arg[1][2]))) = op.arg[2] + 1

\* C9: for two non-empty strictly increasing lists the first component of what
\* proximity returns is the least |a - b| with a of list_0 and b of list_1;
\* for [2, 10] and [5, 11] it is 1
C9_MinProximity ==
    /\ (pc = "returned" /\ op.name = "proximity") =>
          op.result.min_proximity =
              <<MinDistance(Range(op.arg[1]), Range(op.arg[2]))>>
    /\ proximity(<<2, 10>>, <<5, 11>>).min_proximity = <<1>>

\* lists that do not interleave: the result is the gap between the last of the
\* one and the first of the other, and neighbours of one list are closer
C9_Witness ==
    /\ pc = "returned"
    /\ op.name = "proximity"
    /\ Len(op.arg[1]) = 2 /\ Len(op.arg[2]) = 2
    /\ op.arg[1][2] < op.arg[2][1]
    /\ op.arg[1][2] - op.arg[1][1] < op.arg[2][1] - op.arg[1][2]
    /\ op.result.min_proximity = <<op.arg[2][1] - op.arg[1][2]>>

----------------------------------------------------------------------------
(* Frequencies *)

RECURSIVE PositionCount(_, _)
\* the sum, over the documents of S, of the size of the position set
PositionCount(entry, S) ==
    IF S = {} THEN 0
    ELSE LET d == CHOOSE x \in S : TRUE
         IN Cardinality(PositionsOf(entry, d)) + PositionCount(entry, S \ {d})

\* C10: after the build and any queries, the frequency of each term is the sum,
\* over the documents of its document set, of the size of its position set
C10_FrequencyIsPositionCount ==
    \A word \in Terms(inverted_index) :
        inverted_index[word].frequency =
            PositionCount(inverted_index[word], inverted_index[word].document_set)

\* after a query that stored an entry, a term with three occurrences, two of
\* them in one document
C10_Witness ==
    /\ pc = "returned"
    /\ UnknownWord \in Terms(inverted_index)
    /\ \E word \in Terms(inverted_index) :
          /\ inverted_index[word].frequency = 3
          /\ Cardinality(inverted_index[word].document_set) = 2

----------------------------------------------------------------------------
(* Document sets and position sets *)

\* C11: after the build and after any queries, for every term and every
\* document id, the id is in the term's document set exactly when the term's
\* position_dict holds a non-empty position set for the id
C11_DocumentSetIffPositions ==
    \A word \in Terms(inverted_index) :
        /\ \A d \in inverted_index[word].document_set :
              PositionsOf(inverted_index[word], d) # {}
        /\ \A d \in DOMAIN inverted_index[word].position_dict :
              /\ inverted_index[word].position_dict[d] # {}
              /\ d \in inverted_index[word].document_set

\* a search for a two-word phrase returned False although one document holds
\* both words, and another document holds the first word only
C11_Witness ==
    /\ pc = "returned"
    /\ op.name = "_phrase_search"
    /\ Len(op.arg) = 2
    /\ op.arg[1] # op.arg[2]
    /\ ~op.result.found
    /\ \E d \in DocIds : \A n \in 1..2 : Starts(d, <<op.arg[n].w>>) # {}
    /\ \E d \in DocIds : /\ Starts(d, <<op.arg[1].w>>) # {}
                         /\ Starts(d, <<op.arg[2].w>>) = {}

----------------------------------------------------------------------------
(* The total document set *)

----------------------------------------------------------------------------
(* Unknown terms *)

\* some word of the tokens is in no document
HasAbsentTerm(toks) == \E n \in 1..Len(toks) : PhraseDocs(<<Lower(toks[n])>>) = {}

IsPhrase(text) == text # <<>> /\ \A n \in 1..Len(text) : text[n].kind = "word"

RECURSIVE WithoutAbsentTerms(_)
WithoutAbsentTerms(toks) ==
    IF toks = <<>> THEN <<>>
    ELSE (IF HasAbsentTerm(<<Head(toks)>>) THEN <<>> ELSE <<Head(toks)>>)
         \o WithoutAbsentTerms(Tail(toks))

\* C13: a phrase with a term that is in no document is a no-match and not an
\* error: _phrase_search returns (False, {}), boolean_query the empty list,
\* and the total document set under NOT, _proximity_search the empty list,
\* and ranked_ir_tfidf scores as if the term were not in the query
C13_UnknownTermNoMatch ==
    /\ (op.name = "_phrase_search" /\ HasAbsentTerm(op.arg)) =>
          op.status = "ok" /\ ~op.result.found /\ op.result.dict = <<>>
    /\ (op.name = "boolean_query" /\ IsPhrase(op.arg) /\ HasAbsentTerm(op.arg)) =>
          op.status = "ok" /\ op.result = <<>>
    /\ (op.name = "boolean_query" /\ Len(op.arg) >= 2 /\ Head(op.arg) = NOT
        /\ IsPhrase(Tail(op.arg)) /\ HasAbsentTerm(Tail(op.arg))) =>
          /\ op.status = "ok"
          /\ op.result = SortedList(inverted_index[TotalKey].document_set)
    /\ (op.name = "_proximity_search"
        /\ (HasAbsentTerm(op.arg[1][1]) \/ HasAbsentTerm(op.arg[1][2]))) =>
          op.status = "ok" /\ op.result = <<>>
    /\ (op.name = "ranked_ir_tfidf" /\ HasAbsentTerm(op.arg)) =>
          /\ op.status = "ok"
          /\ op.result = ranked_ir_tfidf(inverted_index, WithoutAbsentTerms(op.arg),
                                         remove_stop_words).result

\* a search for a two-word phrase returned, the first word being in a
\* document and the second in none
C13_Witness ==
    /\ pc = "returned"
    /\ op.name = "_phrase_search"
    /\ Len(op.arg) = 2
    /\ ~HasAbsentTerm(<<op.arg[1]>>)
    /\ HasAbsentTerm(<<op.arg[2]>>)
    /\ ~op.result.found

----------------------------------------------------------------------------
(* A missing or unreadable document source *)

\* C14: when the document source is missing or unreadable the run ends in the
\* construction of the index: no index file is written, no boolean or ranked
\* query is evaluated, and no index is there for a caller
C14_MissingSourceAborts ==
    file_path # "documents" =>
        /\ pc \in {"start", "crashed"}
        /\ inverted_index = EmptyIndex
        /\ index_file = <<>>
        /\ boolean_output = <<>>
        /\ op = NoOp
        /\ line_no = 0

\* the run has ended on a missing file, with a well-formed query in the
\* boolean query file
C14_Witness ==
    /\ file_path = "missing"
    /\ pc = "crashed"
    /\ boolean_file # <<>>
    /\ ~MalformedLine(boolean_file[1])

----------------------------------------------------------------------------
(* Ranked retrieval: the scores *)

\* (1 + log10(tf)) * log10(N / df) read off the documents, in millionths; 0
\* for a document without the word
Weight(word, d) ==
    IF Starts(d, <<word>>) = {} THEN 0
    ELSE (1000 + log10(Cardinality(Starts(d, <<word>>))))
         * (log10(Cardinality(NonEmptyDocs)) - log10(Cardinality(PhraseDocs(<<word>>))))

RECURSIVE Score(_, _)
\* the sum of the weights over the occurrences of words in the query
Score(words, d) ==
    IF words = <<>> THEN 0 ELSE Weight(Head(words), d) + Score(Tail(words), d)

\* C15: the score of a document is the sum of weight(term, document) over the
\* occurrences of terms in the query: a term that is k times in the query
\* counts k times, a term absent from the index or the document counts nothing
C15_ScoreIsSumOfWeights ==
    op.name = "ranked_ir_tfidf" =>
        /\ op.status = "ok"
        /\ {op.result[n][1] : n \in 1..Len(op.result)}
           = {d \in DocIds : \E n \in 1..Len(op.arg) : Starts(d, <<op.arg[n].w>>) # {}}
        /\ Len(op.result) = Cardinality({op.result[n][1] : n \in 1..Len(op.result)})
        /\ \A n \in 1..Len(op.result) :
              op.result[n][2] = Score(WordsOf(op.arg), op.result[n][1])

\* a query of the same term twice and a term of no document gave a document
\* twice the positive weight of the term
C15_Witness ==
    /\ pc = "returned"
    /\ op.name = "ranked_ir_tfidf"
    /\ Len(op.arg) = 3
    /\ op.arg[1] = op.arg[3]
    /\ HasAbsentTerm(<<op.arg[2]>>)
    /\ \E n \in 1..Len(op.result) :
          /\ op.result[n][2] > 0
          /\ op.result[n][2] = 2 * Weight(op.arg[1].w, op.result[n][1])

----------------------------------------------------------------------------
(* Ranked retrieval: the weight of a term *)

\* C16: for a term whose document set is the total document set
\* _tfidf_term_weighting returns exactly 0 for every document, whatever the
\* term frequency; for a term in fewer documents than the total the weight of
\* a document that holds it is strictly positive
C16_WeightZeroOrPositive ==
    \A word \in Terms(inverted_index), d \in DocIds :
        /\ inverted_index[word].document_set = inverted_index[TotalKey].document_set =>
              _tfidf_term_weighting(inverted_index, inverted_index[word], d) = 0
        /\ (Cardinality(inverted_index[word].document_set) < inverted_index[TotalKey].size
            /\ d \in inverted_index[word].document_set) =>
              _tfidf_term_weighting(inverted_index, inverted_index[word], d) > 0

\* a ranked query of two terms returned: one term is in both documents, twice
\* in one of them, and weighs nothing; the other is in one document, which
\* comes first with a positive score
C16_Witness ==
    /\ pc = "returned"
    /\ op.name = "ranked_ir_tfidf"
    /\ Len(op.arg) = 2
    /\ Len(op.result) = 2
    /\ op.result[1][2] > 0
    /\ op.result[2][2] = 0
    /\ Cardinality(PhraseDocs(<<op.arg[1].w>>)) = 2
    /\ \E d \in DocIds : Cardinality(Starts(d, <<op.arg[1].w>>)) >= 2
    /\ Cardinality(PhraseDocs(<<op.arg[2].w>>)) = 1

----------------------------------------------------------------------------
(* Ranked retrieval: one term, two documents *)

\* the document of a one-term query that holds the term is in the result with
\* a positive score, and no other document is there with a positive score
OnlyHolderScores ==
    /\ \E n \in 1..Len(op.result) :
          /\ op.result[n][1] \in PhraseDocs(<<op.arg[1].w>>)
          /\ op.result[n][2] > 0
    /\ \A n \in 1..Len(op.result) :
          op.result[n][1] \notin PhraseDocs(<<op.arg[1].w>>) => op.result[n][2] = 0

----------------------------------------------------------------------------
(* Ranked retrieval: the order of the result *)

\* the first term of the query that the document holds
FirstTerm(words, d) == Min({n \in 1..Len(words) : Starts(d, <<words[n]>>) # {}})

\* d1 gets its entry in wtd_score_dict before d2: at an earlier term of the
\* query or, at the same term, as the lower id
ScoredBefore(words, d1, d2) ==
    \/ FirstTerm(words, d1) < FirstTerm(words, d2)
    \/ FirstTerm(words, d1) = FirstTerm(words, d2) /\ d1 < d2

\* C18: the result of ranked_ir_tfidf is in non-increasing order of score,
\* and documents of equal score are in the order in which they were scored
C18_SortedByScoreStable ==
    op.name = "ranked_ir_tfidf" =>
        \A n \in 1..(Len(op.result) - 1) :
            /\ op.result[n][2] >= op.result[n + 1][2]
            /\ op.result[n][2] = op.result[n + 1][2] =>
                  ScoredBefore(WordsOf(op.arg), op.result[n][1], op.result[n + 1][1])

\* two documents of equal positive score, the one of the higher id first
\* because the query names its term first
C18_Witness ==
    /\ pc = "returned"
    /\ op.name = "ranked_ir_tfidf"
    /\ Len(op.result) = 2
    /\ op.result[1][2] = op.result[2][2]
    /\ op.result[1][2] > 0
    /\ op.result[1][1] > op.result[2][1]

----------------------------------------------------------------------------
(* Boolean queries: the form of the result *)

\* C19: the result of boolean_query is a list of document ids in strictly
\* ascending order, each a document of the total document set
C19_BooleanResultAscending ==
    (op.name = "boolean_query" /\ op.status = "ok") =>
        /\ \A n \in 1..(Len(op.result) - 1) : op.result[n] < op.result[n + 1]
        /\ Range(op.result) \subseteq inverted_index[TotalKey].document_set

\* a query with OR returned two documents, the second group giving the lower
\* id
C19_Witness ==
    /\ pc = "returned"
    /\ op.name = "boolean_query"
    /\ Len(op.arg) = 3
    /\ op.arg[2] = OR
    /\ Len(op.result) = 2
    /\ PhraseDocs(<<op.arg[1].w>>) = {op.result[2]}
    /\ PhraseDocs(<<op.arg[3].w>>) = {op.result[1]}

----------------------------------------------------------------------------
(* The index file *)

RECURSIVE CommaSeparated(_)
\* p1,p2,...,pk
CommaSeparated(list) ==
    IF Len(list) = 1 THEN <<ToString(list[1])>>
    ELSE <<ToString(Head(list)), ",">> \o CommaSeparated(Tail(list))

RECURSIVE LinesOfWord(_, _)
\* one line "\t<docId>: p1,...,pk" for each of the documents
LinesOfWord(word, doc_ids) ==
    IF doc_ids = <<>> THEN <<>>
    ELSE <<"\t", ToString(Head(doc_ids)), ": ">>
         \o CommaSeparated(SortedList(Starts(Head(doc_ids), <<word>>)))
         \o <<"\n">>
         \o LinesOfWord(word, Tail(doc_ids))

RECURSIVE Occurrences(_, _)
\* the number of occurrences of the word in the documents
Occurrences(word, docs) ==
    IF docs = {} THEN 0
    ELSE LET d == CHOOSE x \in docs : TRUE
         IN Cardinality(Starts(d, <<word>>)) + Occurrences(word, docs \ {d})

\* the words that are in a document
WordsOfDocuments == UNION {Range(Stream(DocOf(d))) : d \in DocIds}

\* C20: write_index_to_file writes no entry for the total document set, and
\* for each term the line term:frequency followed by one line for each
\* document of the term in ascending id, with the positions of the document in
\* ascending order, separated by commas, no comma after the last
C20_IndexFileFormat ==
    (file_path = "documents" /\ pc \notin {"start", "built"}) =>
        /\ TotalKey \notin DOMAIN index_file
        /\ DOMAIN index_file = WordsOfDocuments
        /\ \A word \in DOMAIN index_file :
              index_file[word] =
                  <<word, ":", ToString(Occurrences(word, DocIds)), "\n">>
                  \o LinesOfWord(word, SortedList(PhraseDocs(<<word>>)))

\* the file is written, with a term of two documents that is twice in one
C20_Witness ==
    /\ pc = "boolean"
    /\ \E word \in DOMAIN index_file :
          /\ Cardinality(PhraseDocs(<<word>>)) = 2
          /\ \E d \in DocIds : Cardinality(Starts(d, <<word>>)) = 2
          /\ \E n \in 1..Len(index_file[word]) : index_file[word][n] = ","

----------------------------------------------------------------------------
(* The export after queries *)

\* the number of document lines of a block of the export
DocumentLineCount(block) == Cardinality({n \in 1..Len(block) : block[n] = "\t"})

\* C21: whenever write_index_to_file is called on a built index, also after
\* queries, the export holds exactly one block per term of the documents, each
\* with one line per document that holds the term; no block has frequency 0 or
\* no document line
C21_ExportOnlyCorpusTerms ==
    op.name = "write_index_to_file" =>
        /\ DOMAIN index_file = WordsOfDocuments
        /\ \A word \in DOMAIN index_file :
              /\ index_file[word][3] # "0"
              /\ DocumentLineCount(index_file[word]) >= 1
              /\ DocumentLineCount(index_file[word]) = Cardinality(PhraseDocs(<<word>>))

----------------------------------------------------------------------------
(* The collection "cat sat on mat", "dog sat near cat" *)

CatAndSat == <<Word("cat"), AND, Word("sat")>>

CatNearSat == <<ProxText(1, <<"cat">>, <<"sat">>)>>

\* C22: over the documents 0 "cat sat on mat" and 1 "dog sat near cat", without
\* stop-word removal, the query cat AND sat returns [0, 1] and the proximity
\* query #1(cat,sat) returns [0]
C22_CatSatScenario ==
    (root = ScenarioRoot /\ op.name = "boolean_line") =>
        /\ op.arg = CatAndSat => (op.status = "ok" /\ op.result = <<0, 1>>)
        /\ op.arg = CatNearSat => (op.status = "ok" /\ op.result = <<0>>)

\* both queries are evaluated, one after the other, and their results written
C22_Witness ==
    /\ root = ScenarioRoot
    /\ boolean_file = <<CatAndSat, CatNearSat>>
    /\ line_no = 2
    /\ op.name = "boolean_line" /\ op.arg = CatNearSat /\ op.result = <<0>>
    /\ boolean_output = <<<<1, 0>>, <<1, 1>>, <<2, 0>>>>

----------------------------------------------------------------------------
(* Stop words *)

\* the tokens of a list whose word is not a stop word
IsKept(tok, stop_words) == tok.w \notin stop_words

\* C23: remove_stop_words_function(words, stop_words) returns exactly the
\* subsequence of the words that are not in stop_words, in their order and
\* with their repetitions, and the empty list for an empty input
C23_StopWordsRemoved ==
    (op.name = "remove_stop_words_function" /\ op.status = "ok") =>
        /\ op.result = SelectSeq(op.arg[1], LAMBDA tok : IsKept(tok, op.arg[2]))
        /\ op.arg[1] = <<>> => op.result = <<>>

\* a list with a stop word between two occurrences of a word that is kept
C23_Witness ==
    /\ op.name = "remove_stop_words_function" /\ op.status = "ok"
    /\ op.arg = <<PhraseTokens(<<"a", "the", "a">>), {"the"}>>
    /\ op.result = PhraseTokens(<<"a", "a">>)

----------------------------------------------------------------------------
(* The pairs proximity() returns *)

\* the pairs (a, b), a of list_0 and b of list_1, at the distance m
PairsAt(list_0, list_1, m) ==
    {<<a, b>> : a \in Range(list_0), b \in Range(list_1)} \cap
    {pair \in (0..MaxPos) \X (0..MaxPos) : Abs(pair[1] - pair[2]) = m}

\* C24: for non-empty strictly increasing lists, the positions proximity()
\* returns are exactly the pairs (a, b), a of list_0 and b of list_1, with
\* |a - b| the minimum returned: every such pair once, the element of list_0
\* first
C24_AllTiedPairs ==
    (op.name = "proximity" /\ pc = "returned") =>
        /\ op.result.min_proximity # <<>>
        /\ Range(op.result.positions)
               = PairsAt(op.arg[1], op.arg[2], op.result.min_proximity[1])
        /\ Len(op.result.positions) = Cardinality(Range(op.result.positions))

\* two pairs at the minimum, one with the element of list_1 before that of
\* list_0 in the merge
C24_Witness ==
    /\ op.name = "proximity" /\ pc = "returned"
    /\ op.arg = <<<<2>>, <<1, 3>>>>
    /\ op.result.positions = <<<<2, 1>>, <<2, 3>>>>

----------------------------------------------------------------------------
(* The positions of the build *)

\* the words of a field, none for a missing element
FieldWords(field) == IF field.present THEN field.text ELSE <<>>

\* the positions of a word in a document: i for the i-th headline token and
\* j + the number of headline tokens for the j-th body token, both from 0
PositionsAsNumbered(word, doc) ==
    {i - 1 : i \in {k \in 1..Len(FieldWords(doc.HEADLINE)) :
                       FieldWords(doc.HEADLINE)[k] = word}}
    \cup {j - 1 + Len(FieldWords(doc.HEADLINE)) :
              j \in {k \in 1..Len(FieldWords(doc.TEXT)) : FieldWords(doc.TEXT)[k] = word}}

\* C25: the build gives the i-th headline token of a document the position i
\* and its j-th body token the position j + the number of headline tokens,
\* both from 0; the offset starts at 0 for every document and is 0 without a
\* headline or with an empty one
C25_PositionsContinueAcrossFields ==
    \A word \in Terms(inverted_index) : \A d \in DocIds :
        PositionsOf(inverted_index[word], d) = PositionsAsNumbered(word, DocOf(d))

\* a first document with a headline token and two body tokens, a second one
\* without headline whose body is numbered from 0
C25_Witness ==
    /\ Len(root) = 2
    /\ root[1].HEADLINE = Element(<<"a">>) /\ root[1].TEXT = Element(<<"b", "a">>)
    /\ root[2].HEADLINE = None /\ root[2].TEXT = Element(<<"b">>)
    /\ inverted_index["a"].position_dict = (0 :> {0, 2})
    /\ inverted_index["b"].position_dict = (0 :> {1}) @@ (1 :> {0})

----------------------------------------------------------------------------
(* Termination *)

\* the evaluation has ended: the call returned, or the process exited or died
Ended == pc \in {"returned", "exited", "crashed"}

\* a pass of the parser's loop that goes on leaves a shorter text
TextShortens ==
    [][(pc = "parsing" /\ pc' = "parsing") => Len(parser'.text) < Len(parser.text)]_vars

\* the merge loop makes at most len(list_0) + len(list_1) passes
PassesBounded ==
    pc = "proximity" => prox.iterations <= Len(prox.list_0) + Len(prox.list_1)

\* the list the passes leave is the list the parser returns
ParserReturnsList ==
    (op.name = "boolean_query_parser" /\ Ended) =>
        /\ op.status = boolean_query_parser(Built, op.arg, remove_stop_words).status
        /\ op.result = boolean_query_parser(Built, op.arg, remove_stop_words).list
        /\ inverted_index = boolean_query_parser(Built, op.arg, remove_stop_words).index

\* a pass of one of the loops is still to be made
Running == pc \in {"parsing", "proximity"}

\* C26: every query evaluation ends; the loop of boolean_query_parser ends, for
\* every query string, with the list of operands and connectors or with a parse
\* error, and the merge loop of proximity() ends for every two lists: a run is
\* never left anywhere but in a loop that goes on, at a returned list or at a
\* parse error
C26_EndsWithListOrParseError ==
    \/ Running
    \/ pc = "returned"
    \/ pc = "exited"

----------------------------------------------------------------------------
(* What a query leaves of the index *)

\* C27: a phrase, boolean, proximity or ranked query leaves the frequency, the
\* document set and the position set in every document of each term of the
\* build as they were, and the total document set with its size: the phrase
\* search prunes copies of the start positions and of the documents
C27_QueriesLeaveTermsUnchanged ==
    /\ \A word \in Terms(Built) :
          /\ inverted_index[word].frequency = Built[word].frequency
          /\ inverted_index[word].document_set = Built[word].document_set
          /\ \A d \in DocIds :
                PositionsOf(inverted_index[word], d) = PositionsOf(Built[word], d)
    /\ inverted_index[TotalKey].document_set = Built[TotalKey].document_set
    /\ inverted_index[TotalKey].size = Built[TotalKey].size

\* a phrase search of two words returned a document with fewer start positions
\* than the first word has positions in it: positions were pruned
C27_Witness ==
    /\ pc = "returned"
    /\ op.name = "_phrase_search"
    /\ Len(op.arg) = 2
    /\ op.result.found
    /\ \E d \in DOMAIN op.result.dict :
          /\ Range(op.result.dict[d]) # PositionsOf(inverted_index[op.arg[1].w], d)
          /\ Range(op.result.dict[d]) \subseteq PositionsOf(inverted_index[op.arg[1].w], d)

----------------------------------------------------------------------------
(* Operands without a term *)

\* the phrase handed to the phrase search for the n-th piece of a boolean
\* text: the piece without its leading NOT, which may leave nothing
PhraseOfPiece(text, n) ==
    LET seg == Segments(text, <<>>)[n]
    IN IF seg # <<>> /\ Head(seg) = NOT /\ (Len(seg) >= 2 \/ n < Len(Segments(text, <<>>)))
       THEN Tail(seg) ELSE seg

\* the first phrase of a line that is searched is left without a term by the
\* preprocessing
FirstPhraseEmpty(text, rsw) ==
    IF StartsWithHash(text)
    THEN text[1].kind = "prox" /\ my_preprocessor(PhraseTokens(text[1].p1), rsw) = <<>>
    ELSE Segments(text, <<>>)[1] # <<>> /\ my_preprocessor(PhraseOfPiece(text, 1), rsw) = <<>>

\* C28: an operand or proximity phrase whose term sequence is empty after the
\* preprocessing is a no-match or a parse error of the query; _phrase_search
\* never fails with an unhandled error on an empty term list
C28_EmptyTermListHandled ==
    (op.name = "boolean_line" /\ FirstPhraseEmpty(op.arg, remove_stop_words)) =>
        op.status \in {"ok", "exit"}

----------------------------------------------------------------------------
(* The key of the total document set *)

\* the word "_total_document_set" is among the words of a query
HasReservedWord(text) ==
    \E n \in 1..Len(text) :
        TotalKey \in {text[n].w} \cup Range(text[n].p1) \cup Range(text[n].p2)

\* C29: the key "_total_document_set" is never treated as a term: neither the
\* build over a document with that token nor a query with that word fails, and
\* the entry of the total document set is left as it is
C29_ReservedKeyNotATerm ==
    /\ op.name = "InvertedIndex" => op.status = "ok"
    /\ (op.name \in {"boolean_line", "ranked_ir_tfidf"} /\ HasReservedWord(op.arg)) =>
           op.status # "KeyError"
    /\ DOMAIN inverted_index[TotalKey] = {"size", "document_set"}

----------------------------------------------------------------------------
(* The positions of a document *)

\* the positions of all the terms in a document
PositionsInDocument(d) ==
    UNION {PositionsOf(inverted_index[word], d) : word \in Terms(inverted_index)}

\* a two-word phrase made of the last headline token and the first body token
\* of the document
AcrossBoundary(words, doc) ==
    /\ Len(words) = 2
    /\ FieldWords(doc.HEADLINE) # <<>> /\ FieldWords(doc.TEXT) # <<>>
    /\ words[1] = FieldWords(doc.HEADLINE)[Len(FieldWords(doc.HEADLINE))]
    /\ words[2] = FieldWords(doc.TEXT)[1]

\* C30: after the build over documents with unique ids, the position sets of
\* different terms in a document are pairwise disjoint and their union is the
\* range 0..L-1, L being the number of tokens of the headline and the body
\* together; hence a phrase search finds a phrase that starts with the last
\* headline token and goes on with the first body token, at the position of
\* that headline token
C30_PositionsPartitionDocument ==
    /\ \A d \in DocIds :
          /\ \A w1, w2 \in Terms(inverted_index) :
                w1 # w2 => PositionsOf(inverted_index[w1], d)
                               \cap PositionsOf(inverted_index[w2], d) = {}
          /\ PositionsInDocument(d) = 0..(Len(Stream(DocOf(d))) - 1)
    /\ (pc = "returned" /\ op.name = "_phrase_search") =>
          \A d \in DocIds :
              AcrossBoundary(my_preprocessor(op.arg, remove_stop_words), DocOf(d)) =>
                  /\ op.result.found
                  /\ d \in DOMAIN op.result.dict
                  /\ Len(FieldWords(DocOf(d).HEADLINE)) - 1 \in Range(op.result.dict[d])

\* the phrase "a b" was searched in a collection whose first document has the
\* headline "a" and the body "b a": it is found at position 0, and the body
\* holds the positions 1 and 2
C30_Witness ==
    /\ pc = "returned" /\ op.name = "_phrase_search"
    /\ op.arg = <<Word("a"), Word("b")>>
    /\ Len(root) >= 1
    /\ root[1].HEADLINE = Element(<<"a">>) /\ root[1].TEXT = Element(<<"b", "a">>)
    /\ op.result.found
    /\ 0 \in DOMAIN op.result.dict
    /\ 0 \in Range(op.result.dict[0])
    /\ PositionsInDocument(0) = {0, 1, 2}

====
